---- MODULE Spec2Model ----
(***************************************************************************)
(* Verification model of terraform-provider-shoehorn.                      *)
(*                                                                         *)
(*   SpecTransport : one call of Client.doRequest (retry loop, backoff,    *)
(*                   cancellation, error construction).                    *)
(*   SpecHelpers   : the reconciliation helpers as pure functions          *)
(*                   (computeMemberDiff and the *Equivalent functions),    *)
(*                   applied to inputs drawn in the initial state.         *)
(*   SpecResource  : one managed resource instance (entity, team, API key, *)
(*                   k8s agent or integration): its persisted state, the   *)
(*                   remote object, and the Create / Read operations.      *)
(***************************************************************************)
EXTENDS Integers, Sequences, FiniteSets, TLC

VARIABLES
    \* ---- transport: one doRequest call --------------------------------
    pc,         \* position in doRequest: "idle" | "begin" | "send" | "backoff" | "done"
    input,      \* what the caller passed: [body, url]
    attempt,    \* the loop variable `attempt`
    ctxErr,     \* ctx.Err(): "" while the context is live
    lastErr,    \* the local `lastErr` (an error chain, outermost layer first)
    outcomes,   \* what each call of HTTPClient.Do (and ReadAll) produced, in order
    waits,      \* the completed backoff waits, in milliseconds
    served,     \* for each attempt, whether the server carried the request out
    ret,        \* the returned (body, status, err)
    \* ---- helpers: one call of a reconciliation helper ------------------
    hfn,        \* the helper called
    ha,         \* its first argument
    hb,         \* its second argument
    hdone,      \* whether it has returned
    hres,       \* what it returned
    \* ---- resource: one managed resource instance ----------------------
    rkind,      \* the resource type
    rphase,     \* "planned" | "tracked" | "removed" (no persisted state)
    rstate,     \* the plan (while planned), then the persisted state
    rorig,      \* the state the last Create or Update persisted
    rplan,      \* the plan that Create or Update was given
    rserver,    \* the remote object
    rop,        \* the last operation: "none" | "create" | "read" | "remote"
    rdiag,      \* whether the last operation reported an error diagnostic
    rcalls,     \* the client calls the last operation made, in order, with their results
    rchanges,   \* how many times the remote object changed behind the provider
    \* ---- client: one ListEntities or get-by-key call --------------------
    lfn,        \* the client function called: "idle" | "ListEntities" | "GetFeatureFlag" | ...
    lpc,        \* position in it: "idle" | "call" | "loop" | "done"
    larg,       \* the lookup arguments, each a text
    lserver,    \* what the server holds: the chain of pages, or the listed items
    cursor,     \* the local `cursor` of ListEntities
    all,        \* the local `all` of ListEntities
    lsent,      \* the GET requests sent so far, with what came back
    lret        \* what the function returned

tvars == <<pc, input, attempt, ctxErr, lastErr, outcomes, waits, served, ret>>

hvars == <<hfn, ha, hb, hdone, hres>>

rvars == <<rkind, rphase, rstate, rorig, rplan, rserver, rop, rdiag, rcalls, rchanges>>

lvars == <<lfn, lpc, larg, lserver, cursor, all, lsent, lret>>

vars == <<tvars, hvars, rvars, lvars>>

\* A step of one specification leaves the state of the others alone.
TransportOnly == UNCHANGED <<hvars, rvars, lvars>>

HelpersOnly == UNCHANGED <<tvars, rvars, lvars>>

ResourceOnly == UNCHANGED <<tvars, hvars, lvars>>

ClientOnly == UNCHANGED <<tvars, hvars, rvars>>

\* The parts of the state a specification does not exercise stay at these values.
TransportIdle ==
    /\ pc = "idle"
    /\ input = [body |-> "nil", url |-> "ok"]
    /\ attempt = 0
    /\ ctxErr = ""
    /\ lastErr = <<>>
    /\ outcomes = <<>>
    /\ waits = <<>>
    /\ served = <<>>
    /\ ret = [body |-> "<nil>", status |-> 0, err |-> <<>>]

ClientIdle ==
    /\ lfn = "idle"
    /\ lpc = "idle"
    /\ larg = <<>>
    /\ lserver = <<>>
    /\ cursor = <<>>
    /\ all = <<>>
    /\ lsent = <<>>
    /\ lret = [is |-> "absent"]

HelpersIdle ==
    /\ hfn = "idle"
    /\ ha = <<>>
    /\ hb = <<>>
    /\ hdone = FALSE
    /\ hres = FALSE

\* No persisted state.
NoState == [is |-> "absent"]

ResourceIdle ==
    /\ rkind = "idle"
    /\ rphase = "idle"
    /\ rstate = NoState
    /\ rorig = NoState
    /\ rplan = NoState
    /\ rserver = NoState
    /\ rop = "none"
    /\ rdiag = FALSE
    /\ rcalls = <<>>
    /\ rchanges = 0

-----------------------------------------------------------------------------
\* Transport: constants and the values an attempt can produce

maxRetries == 3

BackoffUnitMs == 500

Canceled == "context canceled"

DeadlineExceeded == "context deadline exceeded"

\* Messages of errors HTTPClient.Do returns while the context is live.
DoErrors ==
    { "EOF",
      "read tcp: connection reset by peer",
      "dial tcp: connection refused",
      "write: broken pipe",
      "context deadline exceeded (Client.Timeout exceeded while awaiting headers)",
      "dial tcp: lookup host: no such host" }

\* Messages of errors io.ReadAll(resp.Body) returns.
ReadErrors == { "unexpected EOF", "http2: stream error" }

ErrorMessages == DoErrors \cup ReadErrors \cup {Canceled, DeadlineExceeded}

\* The substrings isRetryable looks for.
RetrySignatures ==
    { "EOF", "connection reset", "connection refused", "broken pipe",
      "context deadline exceeded", "Client.Timeout" }

\* strings.Contains on the messages above: <<s, sub>> is listed iff sub occurs in s.
SubstringPairs ==
    { <<"EOF", "EOF">>,
      <<"unexpected EOF", "EOF">>,
      <<"read tcp: connection reset by peer", "connection reset">>,
      <<"dial tcp: connection refused", "connection refused">>,
      <<"write: broken pipe", "broken pipe">>,
      <<"context deadline exceeded (Client.Timeout exceeded while awaiting headers)",
        "context deadline exceeded">>,
      <<"context deadline exceeded (Client.Timeout exceeded while awaiting headers)",
        "Client.Timeout">>,
      <<"context deadline exceeded", "context deadline exceeded">> }

Contains(s, sub) == <<s, sub>> \in SubstringPairs

\* Mutant of isRetryable: every transport error is retried.
isRetryableAny(msg) == msg = msg

isRetryable(msg) == \E sig \in RetrySignatures : Contains(msg, sig)

Statuses == {200, 204, 304, 400, 404, 500, 503}

BodyCodeMsg == "{\"code\":\"E42\",\"message\":\"boom\"}"

BodyMsgOnly == "{\"message\":\"boom\"}"

BodyErrorsArray == "{\"errors\":[\"name is required\"]}"

BodyStatusField == "{\"statusCode\":418,\"message\":\"teapot\"}"

BodyText == "upstream unavailable"

Bodies == {"", BodyText, BodyCodeMsg, BodyMsgOnly, BodyErrorsArray, BodyStatusField}

NilBody == "<nil>"

\* json.Unmarshal(respBody, apiErr) for the bodies above: whether it fails, and the
\* fields of APIError it sets (a key matches a field by its tag or, for the untagged
\* StatusCode, by its case-insensitive name).
Unmarshal(body) ==
    CASE body = BodyCodeMsg     -> [err |-> FALSE, code |-> "E42", message |-> "boom", status |-> 0]
      [] body = BodyMsgOnly     -> [err |-> FALSE, code |-> "", message |-> "boom", status |-> 0]
      [] body = BodyErrorsArray -> [err |-> FALSE, code |-> "", message |-> "", status |-> 0]
      [] body = BodyStatusField -> [err |-> FALSE, code |-> "", message |-> "teapot", status |-> 418]
      [] OTHER                  -> [err |-> TRUE, code |-> "", message |-> "", status |-> 0]

\* http.StatusText
StatusText(status) ==
    CASE status = 200 -> "OK"
      [] status = 204 -> "No Content"
      [] status = 304 -> "Not Modified"
      [] status = 400 -> "Bad Request"
      [] status = 404 -> "Not Found"
      [] status = 500 -> "Internal Server Error"
      [] status = 503 -> "Service Unavailable"
      [] OTHER        -> ""

\* What one pass through the loop body can observe: Do fails, or Do returns a
\* response whose body ReadAll reads (readErr = "") or fails to read.
DoErr(msg) == [kind |-> "doErr", msg |-> msg, status |-> 0, body |-> "", readErr |-> ""]

Resp(status, body) == [kind |-> "resp", msg |-> "", status |-> status, body |-> body, readErr |-> ""]

RespUnread(status, e) == [kind |-> "resp", msg |-> "", status |-> status, body |-> "", readErr |-> e]

LiveOutcomes ==
    {DoErr(m) : m \in DoErrors}
        \cup {Resp(s, b) : s \in Statuses, b \in Bodies}
        \cup {RespUnread(s, e) : s \in Statuses, e \in ReadErrors}

-----------------------------------------------------------------------------
\* Errors: a chain of layers, outermost first (errors.Unwrap walks it); <<>> is nil.

Layer(kind, text, n, status, code) ==
    [kind |-> kind, text |-> text, n |-> n, status |-> status, code |-> code]

\* fmt.Errorf("<text>: %w", inner)
Wrap(text, n, inner) == <<Layer("fmt", text, n, 0, "")>> \o inner

\* The error Do returns: a *url.Error, which wraps ctx.Err() when the context ended it.
DoError(msg) ==
    IF msg \in {Canceled, DeadlineExceeded}
    THEN <<Layer("url.Error", msg, 0, 0, ""), Layer("ctx", msg, 0, 0, "")>>
    ELSE <<Layer("url.Error", msg, 0, 0, "")>>

ReadError(msg) == <<Layer("read", msg, 0, 0, "")>>

CtxError(msg) == <<Layer("ctx", msg, 0, 0, "")>>

\* &APIError{StatusCode, Code, Message}
APIError(status, code, message) == <<Layer("APIError", message, 0, status, code)>>

\* The *APIError doRequest builds for a response with 400 <= status < 500.
ClientAPIError(status, body) ==
    LET u == Unmarshal(body)
        st == IF u.status # 0 THEN u.status ELSE status
        msg0 == IF u.err THEN body ELSE u.message
        msg == IF msg0 = "" /\ u.code = ""
               THEN (IF body # "" THEN body ELSE StatusText(status))
               ELSE msg0
    IN APIError(st, u.code, msg)

\* The *APIError doRequest records for a response with status >= 500.
ServerAPIError(status, body) == APIError(status, "", body)

NoError == <<>>

Return(body, status, err) == [body |-> body, status |-> status, err |-> err]

NoReturn == Return(NilBody, 0, NoError)

-----------------------------------------------------------------------------
\* Transport: doRequest

Inputs == [body : {"nil", "ok", "unmarshalable"}, url : {"ok", "bad"}]

InitTransport ==
    /\ pc = "begin"
    /\ input \in Inputs
    /\ attempt = 0
    /\ ctxErr \in {"", Canceled, DeadlineExceeded}
    /\ lastErr = NoError
    /\ outcomes = <<>>
    /\ waits = <<>>
    /\ served = <<>>
    /\ ret = NoReturn
    /\ HelpersIdle
    /\ ResourceIdle
    /\ ClientIdle

\* json.Marshal(body), before the loop.
Begin ==
    /\ pc = "begin"
    /\ IF input.body = "unmarshalable"
       THEN /\ pc' = "done"
            /\ ret' = Return(NilBody, 0, Wrap("marshaling request body", 0, <<Layer("json", "unsupported type", 0, 0, "")>>))
       ELSE /\ pc' = "send"
            /\ ret' = ret
    /\ UNCHANGED <<input, attempt, ctxErr, lastErr, outcomes, waits, served>>
    /\ TransportOnly

\* The caller's context is cancelled or its deadline passes, at any moment.
Cancel ==
    /\ pc \in {"begin", "send", "backoff"}
    /\ ctxErr = ""
    /\ ctxErr' \in {Canceled, DeadlineExceeded}
    /\ UNCHANGED <<pc, input, attempt, lastErr, outcomes, waits, served, ret>>
    /\ TransportOnly

\* Mutant of Continue: the loop bound is off by one (attempt <= maxRetries).
ContinueOffByOne(err, out) ==
    /\ lastErr' = err
    /\ outcomes' = out
    /\ attempt' = attempt + 1
    /\ IF attempt + 1 <= maxRetries
       THEN /\ pc' = "backoff"
            /\ ret' = ret
       ELSE /\ pc' = "done"
            /\ ret' = Return(NilBody, 0, Wrap("request failed after %d attempts", maxRetries, err))

\* Mutant of Continue: lastErr keeps the first failure instead of the latest.
ContinueKeepsFirst(err, out) ==
    LET kept == IF lastErr = NoError THEN err ELSE lastErr IN
    /\ lastErr' = kept
    /\ outcomes' = out
    /\ attempt' = attempt + 1
    /\ IF attempt + 1 < maxRetries
       THEN /\ pc' = "backoff"
            /\ ret' = ret
       ELSE /\ pc' = "done"
            /\ ret' = Return(NilBody, 0, Wrap("request failed after %d attempts", maxRetries, kept))

\* `continue`: the next iteration, or the return after the loop.
Continue(err, out) ==
    /\ lastErr' = err
    /\ outcomes' = out
    /\ attempt' = attempt + 1
    /\ IF attempt + 1 < maxRetries
       THEN /\ pc' = "backoff"
            /\ ret' = ret
       ELSE /\ pc' = "done"
            /\ ret' = Return(NilBody, 0, Wrap("request failed after %d attempts", maxRetries, err))

\* `return` from inside the loop.
Finish(err, out, r) ==
    /\ lastErr' = err
    /\ outcomes' = out
    /\ attempt' = attempt
    /\ pc' = "done"
    /\ ret' = r

\* Mutant of BackoffCancelled: the last transient failure is returned instead of ctx.Err().
BackoffCancelledReturnsLast ==
    /\ pc = "backoff"
    /\ ctxErr # ""
    /\ pc' = "done"
    /\ ret' = Return(NilBody, 0, lastErr)
    /\ UNCHANGED <<input, attempt, ctxErr, lastErr, outcomes, waits, served>>
    /\ TransportOnly

\* The select's case <-ctx.Done().
BackoffCancelled ==
    /\ pc = "backoff"
    /\ ctxErr # ""
    /\ pc' = "done"
    /\ ret' = Return(NilBody, 0, CtxError(ctxErr))
    /\ UNCHANGED <<input, attempt, ctxErr, lastErr, outcomes, waits, served>>
    /\ TransportOnly

\* Mutant of BackoffElapsed: every wait lasts one unit.
BackoffElapsedConstant ==
    /\ pc = "backoff"
    /\ ctxErr = ""
    /\ pc' = "send"
    /\ waits' = Append(waits, BackoffUnitMs)
    /\ UNCHANGED <<input, attempt, ctxErr, lastErr, outcomes, served, ret>>
    /\ TransportOnly

\* The select's case <-time.After(attempt * 500ms).
BackoffElapsed ==
    /\ pc = "backoff"
    /\ ctxErr = ""
    /\ pc' = "send"
    /\ waits' = Append(waits, attempt * BackoffUnitMs)
    /\ UNCHANGED <<input, attempt, ctxErr, lastErr, outcomes, served, ret>>
    /\ TransportOnly

\* Do returned an error (lines 105-112).
OnDoError(o, out) ==
    LET e == Wrap("executing request", 0, DoError(o.msg)) IN
    IF isRetryable(o.msg)
    THEN Continue(e, out)
    ELSE Finish(e, out, Return(NilBody, 0, e))

\* ReadAll returned an error (lines 114-122).
OnReadError(o, out) ==
    LET e == Wrap("reading response body", 0, ReadError(o.readErr)) IN
    IF isRetryable(o.readErr)
    THEN Continue(e, out)
    ELSE Finish(e, out, Return(NilBody, o.status, e))

\* Mutant of OnResponse: a successful response's body is dropped.
OnResponseDropsBody(o, out) ==
    IF o.status >= 500
    THEN Continue(ServerAPIError(o.status, o.body), out)
    ELSE IF o.status >= 400
    THEN Finish(lastErr, out, Return(NilBody, o.status, ClientAPIError(o.status, o.body)))
    ELSE Finish(lastErr, out, Return(NilBody, o.status, NoError))

\* A response that was read in full (lines 124-147).
OnResponse(o, out) ==
    IF o.status >= 500
    THEN Continue(ServerAPIError(o.status, o.body), out)
    ELSE IF o.status >= 400
    THEN Finish(lastErr, out, Return(NilBody, o.status, ClientAPIError(o.status, o.body)))
    ELSE Finish(lastErr, out, Return(o.body, o.status, NoError))

\* The rest of the loop body, on what Do and ReadAll produced.
Handle(o) ==
    LET out == Append(outcomes, o) IN
    IF o.kind = "doErr"
    THEN OnDoError(o, out)
    ELSE IF o.readErr # ""
    THEN OnReadError(o, out)
    ELSE OnResponse(o, out)

\* Whether the server carried out the request of an attempt that ended in o: it did
\* when it answered 2xx and did not when it refused (4xx), answered 304 or was never
\* reached; after a 5xx, or when the connection broke or timed out once the request
\* was on its way, either is possible.
MayServe(o) ==
    IF o.kind = "doErr"
    THEN (IF o.msg \in {"dial tcp: connection refused", "dial tcp: lookup host: no such host"}
          THEN {FALSE} ELSE BOOLEAN)
    ELSE IF o.status >= 500 THEN BOOLEAN
    ELSE IF o.status >= 300 THEN {FALSE}
    ELSE {TRUE}

\* One pass through the loop body after the wait: build the request, Do, ReadAll.
Attempt ==
    /\ pc = "send"
    /\ UNCHANGED <<input, ctxErr, waits>>
    /\ TransportOnly
    /\ IF input.url = "bad"
       THEN LET e == Wrap("creating request", 0, <<Layer("url", "invalid URL", 0, 0, "")>>)
            IN Finish(lastErr, outcomes, Return(NilBody, 0, e)) /\ UNCHANGED served
       ELSE IF ctxErr # ""
       THEN Handle(DoErr(ctxErr)) /\ served' = Append(served, FALSE)
       ELSE \E o \in LiveOutcomes : \E did \in MayServe(o) :
                Handle(o) /\ served' = Append(served, did)

NextTransport == Begin \/ Cancel \/ BackoffCancelled \/ BackoffElapsed \/ Attempt

SpecTransport == InitTransport /\ [][NextTransport]_vars

-----------------------------------------------------------------------------
\* Transport: properties of doRequest

\* The k-th thing an attempt produced, classified as the specification classifies it.
IsResponse(o) == o.kind = "resp" /\ o.readErr = ""

IsTransportError(o) == o.kind = "doErr" \/ (o.kind = "resp" /\ o.readErr # "")

TransportMessage(o) == IF o.kind = "doErr" THEN o.msg ELSE o.readErr

StatusIn(o, lo, hi) == IsResponse(o) /\ lo <= o.status /\ o.status <= hi

\* The transient-failure signatures the specification lists: end-of-stream, connection
\* reset, connection refused, broken pipe, deadline/timeout exceeded.
TransientSignature(msg) ==
    \E sig \in {"EOF", "connection reset", "connection refused", "broken pipe",
                "context deadline exceeded", "Client.Timeout"} : <<msg, sig>> \in SubstringPairs

FailsTransiently(o) ==
    \/ IsTransportError(o) /\ TransientSignature(TransportMessage(o))
    \/ IsResponse(o) /\ o.status >= 500

Done == pc = "done"

Sendable == input.body # "unmarshalable" /\ input.url = "ok"

\* Some layer of the chain is a typed API error with this status.
AsAPIError(chain, status) ==
    \E i \in 1..Len(chain) : chain[i].kind = "APIError" /\ chain[i].status = status

\* The chain carries the failure attempt outcome o stands for.
Carries(chain, o) ==
    \E i \in 1..Len(chain) :
        IF IsResponse(o)
        THEN chain[i].kind = "APIError" /\ chain[i].status = o.status /\ chain[i].text = o.body
        ELSE chain[i].kind \in {"url.Error", "read"} /\ chain[i].text = TransportMessage(o)

StatesAttemptCount(chain, n) ==
    /\ chain # <<>>
    /\ chain[1].kind = "fmt"
    /\ chain[1].text = "request failed after %d attempts"
    /\ chain[1].n = n

\* C1: without cancellation, k <= 2 transient failures followed by a 2xx response end
\* the operation successfully after exactly k+1 attempts; three consecutive transient
\* failures end it with an error after exactly 3 attempts, and no fourth is ever sent.
C1_RetryBound ==
    (ctxErr = "" /\ Sendable) =>
        /\ Len(outcomes) <= maxRetries
        /\ \A k \in 0..2 :
            ( /\ Len(outcomes) >= k + 1
              /\ \A i \in 1..k : FailsTransiently(outcomes[i])
              /\ StatusIn(outcomes[k + 1], 200, 299) )
            => (Done /\ Len(outcomes) = k + 1 /\ ret.err = NoError)
        /\ ( /\ Len(outcomes) >= 3
             /\ \A i \in 1..3 : FailsTransiently(outcomes[i]) )
            => (Done /\ Len(outcomes) = 3 /\ ret.err # NoError)

C1_Witness ==
    /\ Done /\ ctxErr = "" /\ Len(outcomes) = 3
    /\ FailsTransiently(outcomes[1]) /\ IsTransportError(outcomes[1])
    /\ FailsTransiently(outcomes[2]) /\ IsResponse(outcomes[2])
    /\ StatusIn(outcomes[3], 200, 299)
    /\ ret.err = NoError

\* C2 (as stated): a 5xx response on attempt 1 or 2 is always followed by another
\* attempt; a 4xx response or a transport error matching no transient signature ends
\* the operation on that attempt with an error.
C2_StatusRouting_AsStated ==
    \A i \in 1..Len(outcomes) :
        /\ (i <= 2 /\ StatusIn(outcomes[i], 500, 599) /\ Done) => Len(outcomes) > i
        /\ ( \/ StatusIn(outcomes[i], 400, 499)
             \/ IsTransportError(outcomes[i]) /\ ~TransientSignature(TransportMessage(outcomes[i])) )
            => (Done /\ Len(outcomes) = i /\ ret.err # NoError)

\* C2 (amended): a 5xx response on attempt 1 or 2 is followed by another attempt unless
\* the caller's cancellation signal has fired by the end of the backoff wait, in which
\* case the operation ends with the cancellation error; a 4xx response or a transport
\* error matching no transient signature ends the operation on that attempt with an error.
C2_StatusRouting ==
    \A i \in 1..Len(outcomes) :
        /\ (i <= 2 /\ StatusIn(outcomes[i], 500, 599) /\ Done /\ Len(outcomes) = i)
            => (ctxErr # "" /\ ret.err = CtxError(ctxErr))
        /\ (i <= 2 /\ StatusIn(outcomes[i], 500, 599) /\ ~Done /\ Len(outcomes) = i)
            => pc \in {"backoff", "send"}
        /\ ( \/ StatusIn(outcomes[i], 400, 499)
             \/ IsTransportError(outcomes[i]) /\ ~TransientSignature(TransportMessage(outcomes[i])) )
            => (Done /\ Len(outcomes) = i /\ ret.err # NoError)

C2_Witness ==
    /\ Done /\ Len(outcomes) = 2
    /\ StatusIn(outcomes[1], 500, 599)
    /\ StatusIn(outcomes[2], 400, 499)
    /\ ret.err # NoError

\* C8: once the cancellation signal has fired before or during a retry's backoff wait,
\* the operation's only step is to return the cancellation error itself, with no
\* further HTTP attempt.
C8_CancelDuringBackoff ==
    [][(pc = "backoff" /\ ctxErr # "")
        => (pc' = "done" /\ outcomes' = outcomes /\ ret'.err = CtxError(ctxErr)
            /\ ret'.err # lastErr /\ ~StatesAttemptCount(ret'.err, maxRetries))]_vars

C8_Witness ==
    /\ Done /\ ctxErr = Canceled
    /\ Len(outcomes) = 2 /\ FailsTransiently(outcomes[2])
    /\ lastErr # NoError
    /\ ret.err = CtxError(Canceled)

\* C9 (as stated): the operation returns no error if and only if the response it ends
\* on has a status in [200,299], and then returns that response's body and status.
C9_Success_AsStated ==
    Done =>
        /\ ret.err = NoError
            <=> (outcomes # <<>> /\ StatusIn(outcomes[Len(outcomes)], 200, 299))
        /\ ret.err = NoError
            => ( /\ ret.body = outcomes[Len(outcomes)].body
                 /\ ret.status = outcomes[Len(outcomes)].status )

\* C9 (amended): the operation returns no error if and only if the response it ends on
\* has a status below 400 (every 2xx, and any 1xx/3xx response the HTTP client hands
\* back, such as 304), and then returns that response's raw body and status unchanged.
C9_Success ==
    Done =>
        /\ ret.err = NoError
            <=> (outcomes # <<>> /\ StatusIn(outcomes[Len(outcomes)], 0, 399))
        /\ ret.err = NoError
            => ( /\ ret.body = outcomes[Len(outcomes)].body
                 /\ ret.status = outcomes[Len(outcomes)].status )

C9_Witness ==
    /\ Done /\ outcomes # <<>>
    /\ outcomes[Len(outcomes)] = Resp(204, "")
    /\ ret = Return("", 204, NoError)

\* C10 (as stated): when all 3 attempts fail, the returned error wraps the third
\* attempt's failure and states the attempt count 3, and a last failure that was an
\* HTTP response leaves its status code recoverable from the returned error.
C10_Exhaustion_AsStated ==
    ( /\ Done /\ Len(outcomes) = 3
      /\ \A i \in 1..3 : ~StatusIn(outcomes[i], 0, 399) )
    => /\ StatesAttemptCount(ret.err, 3)
       /\ Carries(Tail(ret.err), outcomes[3])
       /\ IsResponse(outcomes[3]) => AsAPIError(ret.err, outcomes[3].status)

\* C10 (amended): when all 3 attempts fail transiently (retryable transport error or
\* 5xx), the returned error wraps the third attempt's failure and states the attempt
\* count 3, and a last failure that was an HTTP response leaves its status code
\* recoverable from the returned error.
C10_Exhaustion ==
    ( /\ Done /\ Len(outcomes) = 3
      /\ \A i \in 1..3 : FailsTransiently(outcomes[i]) )
    => /\ StatesAttemptCount(ret.err, 3)
       /\ Carries(Tail(ret.err), outcomes[3])
       /\ IsResponse(outcomes[3]) => AsAPIError(ret.err, outcomes[3].status)

C10_Witness ==
    /\ Done /\ Len(outcomes) = 3
    /\ IsTransportError(outcomes[1]) /\ FailsTransiently(outcomes[1])
    /\ StatusIn(outcomes[2], 500, 500)
    /\ StatusIn(outcomes[3], 503, 503)
    /\ StatesAttemptCount(ret.err, 3)
    /\ AsAPIError(ret.err, 503)

-----------------------------------------------------------------------------
\* Serialized collections: the JSON text held in a string attribute

MaxElems == 2

SeqsUpTo(S, n) == UNION {[1..k -> S] : k \in 0..n}

\* A JSON array of objects, in the order written; an object is the record of the keys
\* it spells out (an omitempty field that was empty has no key).
JSONArray(items) == [json |-> "array", items |-> items]

\* Text that json.Unmarshal rejects.
InvalidJSON == [json |-> "invalid", items |-> <<>>]

Valid(text) == text.json = "array"

\* The struct field a key decodes into: the zero value when the key is absent.
Field(obj, key, zero) == IF key \in DOMAIN obj THEN obj[key] ELSE zero

\* json.Unmarshal([]byte(text), &slice): the decoded slice (a failed decode leaves nil).
Decode(text) == IF Valid(text) THEN text.items ELSE <<>>

\* A types.String attribute: null, unknown, or a known value.
StringNull == [is |-> "null", value |-> InvalidJSON]

StringUnknown == [is |-> "unknown", value |-> InvalidJSON]

StringValue(text) == [is |-> "value", value |-> text]

IsNull(attr) == attr.is = "null"

IsUnknown(attr) == attr.is = "unknown"

Range(seq) == {seq[i] : i \in 1..Len(seq)}

Perms(seq) ==
    {[i \in 1..Len(seq) |-> seq[f[i]]] :
        f \in {g \in [1..Len(seq) -> 1..Len(seq)] : \A i, j \in 1..Len(seq) : g[i] = g[j] => i = j}}

-----------------------------------------------------------------------------
\* Team members: computeMemberDiff and membersEquivalent

UserIDs == {"u1", "u2"}

Roles == {"admin", "member"}

MemberObjs ==
    {[user_id |-> u] : u \in UserIDs} \cup {[user_id |-> u, role |-> r] : u \in UserIDs, r \in Roles}

MemberTexts == {JSONArray(s) : s \in SeqsUpTo(MemberObjs, MaxElems)} \cup {InvalidJSON}

MemberAttrs == {StringValue(t) : t \in MemberTexts} \cup {StringNull, StringUnknown}

\* tfMemberEntry decoded from one JSON object.
tfMemberEntry(obj) == [UserID |-> Field(obj, "user_id", ""), Role |-> Field(obj, "role", "")]

DecodeMembers(text) == [i \in 1..Len(Decode(text)) |-> tfMemberEntry(Decode(text)[i])]

\* The map built by `for _, m := range members { mp[m.UserID] = m.Role }`: a later
\* entry overwrites an earlier one with the same user id.
RoleMap(members) ==
    [u \in {members[i].UserID : i \in 1..Len(members)} |->
        LET last == CHOOSE i \in 1..Len(members) :
                        /\ members[i].UserID = u
                        /\ \A j \in 1..Len(members) : members[j].UserID = u => j <= i
        IN members[last].Role]

AddMemberRequest(m) == [UserID |-> m.UserID, Role |-> m.Role]

\* Mutant of computeMemberDiff: a member whose role changed is not added again.
computeMemberDiffIgnoresRole(stateMembersAttr, planMembersAttr) ==
    LET stateMembers == IF ~IsNull(stateMembersAttr) /\ ~IsUnknown(stateMembersAttr)
                        THEN DecodeMembers(stateMembersAttr.value) ELSE <<>>
        planMembers == IF ~IsNull(planMembersAttr) /\ ~IsUnknown(planMembersAttr)
                       THEN DecodeMembers(planMembersAttr.value) ELSE <<>>
        stateMap == RoleMap(stateMembers)
        planMap == RoleMap(planMembers)
        toAdd == SelectSeq(planMembers, LAMBDA m : m.UserID \notin DOMAIN stateMap)
        toRemove == SelectSeq(stateMembers, LAMBDA m : m.UserID \notin DOMAIN planMap)
    IN [add |-> [i \in 1..Len(toAdd) |-> AddMemberRequest(toAdd[i])],
        remove |-> [i \in 1..Len(toRemove) |-> toRemove[i].UserID]]

computeMemberDiff(stateMembersAttr, planMembersAttr) ==
    LET stateMembers == IF ~IsNull(stateMembersAttr) /\ ~IsUnknown(stateMembersAttr)
                        THEN DecodeMembers(stateMembersAttr.value) ELSE <<>>
        planMembers == IF ~IsNull(planMembersAttr) /\ ~IsUnknown(planMembersAttr)
                       THEN DecodeMembers(planMembersAttr.value) ELSE <<>>
        stateMap == RoleMap(stateMembers)
        planMap == RoleMap(planMembers)
        toAdd == SelectSeq(planMembers,
                           LAMBDA m : m.UserID \notin DOMAIN stateMap \/ stateMap[m.UserID] # m.Role)
        toRemove == SelectSeq(stateMembers, LAMBDA m : m.UserID \notin DOMAIN planMap)
    IN [add |-> [i \in 1..Len(toAdd) |-> AddMemberRequest(toAdd[i])],
        remove |-> [i \in 1..Len(toRemove) |-> toRemove[i].UserID]]

\* The members, as a map from user id to role, after every addition was upserted and
\* every removal deleted.
Applied(members, diff) ==
    LET before == RoleMap(members)
        upserts == RoleMap(diff.add)
        ids == (DOMAIN before \cup DOMAIN upserts) \ Range(diff.remove)
    IN [id \in ids |-> IF id \in DOMAIN upserts THEN upserts[id] ELSE before[id]]

memberKey(m) == m.UserID \o "|" \o m.Role

\* Mutant of membersEquivalent: the two lists are compared position by position.
membersEquivalentInOrder(a, b) ==
    IF ~Valid(a) \/ ~Valid(b) THEN FALSE
    ELSE LET membersA == DecodeMembers(a)
             membersB == DecodeMembers(b)
         IN /\ Len(membersA) = Len(membersB)
            /\ \A i \in 1..Len(membersB) : memberKey(membersB[i]) = memberKey(membersA[i])

membersEquivalent(a, b) ==
    IF ~Valid(a) \/ ~Valid(b) THEN FALSE
    ELSE LET membersA == DecodeMembers(a)
             membersB == DecodeMembers(b)
             setA == {memberKey(membersA[i]) : i \in 1..Len(membersA)}
         IN /\ Len(membersA) = Len(membersB)
            /\ \A i \in 1..Len(membersB) : memberKey(membersB[i]) \in setA

-----------------------------------------------------------------------------
\* Entity relations, links and licenses: the *Equivalent functions

RelationObjs == {[type |-> t, target |-> g] : t \in {"depends_on", "owns"}, g \in {"service:a", "service:b"}}

RelationTexts == {JSONArray(s) : s \in SeqsUpTo(RelationObjs, MaxElems)} \cup {InvalidJSON}

rel(obj) == [Type |-> Field(obj, "type", ""), Target |-> Field(obj, "target", "")]

relKey(r) == r.Type \o "|" \o r.Target

relationsEquivalent(a, b) ==
    IF ~Valid(a) \/ ~Valid(b) THEN FALSE
    ELSE LET relsA == [i \in 1..Len(Decode(a)) |-> rel(Decode(a)[i])]
             relsB == [i \in 1..Len(Decode(b)) |-> rel(Decode(b)[i])]
             setA == {relKey(relsA[i]) : i \in 1..Len(relsA)}
         IN /\ Len(relsA) = Len(relsB)
            /\ \A i \in 1..Len(relsB) : relKey(relsB[i]) \in setA

LinkObjs ==
    { [name |-> "docs", url |-> "https://d"],
      [name |-> "docs", url |-> "https://d", icon |-> "book"],
      [name |-> "repo", url |-> "https://r"],
      [name |-> "docs", url |-> "https://r"] }

LinkTexts == {JSONArray(s) : s \in SeqsUpTo(LinkObjs, MaxElems)} \cup {InvalidJSON}

link(obj) ==
    [Name |-> Field(obj, "name", ""), URL |-> Field(obj, "url", ""), Icon |-> Field(obj, "icon", "")]

linkKey(l) == l.Name \o "|" \o l.URL \o "|" \o l.Icon

linksEquivalent(a, b) ==
    IF ~Valid(a) \/ ~Valid(b) THEN FALSE
    ELSE LET linksA == [i \in 1..Len(Decode(a)) |-> link(Decode(a)[i])]
             linksB == [i \in 1..Len(Decode(b)) |-> link(Decode(b)[i])]
             setA == {linkKey(linksA[i]) : i \in 1..Len(linksA)}
         IN /\ Len(linksA) = Len(linksB)
            /\ \A i \in 1..Len(linksB) : linkKey(linksB[i]) \in setA

LicenseObjs ==
    { [title |-> "IDE"],
      [title |-> "IDE", seats |-> 5],
      [title |-> "IDE", vendor |-> "Acme", seats |-> 5],
      [title |-> "DB", vendor |-> "Acme", expires |-> "2027-01-01"],
      [title |-> "IDE|Pro", vendor |-> "Acme"],
      [title |-> "IDE", vendor |-> "Pro|Acme"] }

LicenseTexts == {JSONArray(s) : s \in SeqsUpTo(LicenseObjs, MaxElems)} \cup {InvalidJSON}

lic(obj) ==
    [Title |-> Field(obj, "title", ""), Vendor |-> Field(obj, "vendor", ""),
     Purchased |-> Field(obj, "purchased", ""), Expires |-> Field(obj, "expires", ""),
     Seats |-> Field(obj, "seats", 0), Cost |-> Field(obj, "cost", ""),
     Contract |-> Field(obj, "contract", ""), Notes |-> Field(obj, "notes", "")]

\* fmt.Sprintf("%s|%s|%s|%s|%d|%s|%s|%s", ...)
licKey(l) ==
    l.Title \o "|" \o l.Vendor \o "|" \o l.Purchased \o "|" \o l.Expires \o "|"
        \o ToString(l.Seats) \o "|" \o l.Cost \o "|" \o l.Contract \o "|" \o l.Notes

licensesEquivalent(a, b) ==
    IF ~Valid(a) \/ ~Valid(b) THEN FALSE
    ELSE LET licsA == [i \in 1..Len(Decode(a)) |-> lic(Decode(a)[i])]
             licsB == [i \in 1..Len(Decode(b)) |-> lic(Decode(b)[i])]
             setA == {licKey(licsA[i]) : i \in 1..Len(licsA)}
         IN /\ Len(licsA) = Len(licsB)
            /\ \A i \in 1..Len(licsB) : licKey(licsB[i]) \in setA

-----------------------------------------------------------------------------
\* Helpers: one call of a helper on drawn inputs

EquivalenceFns == {"membersEquivalent", "relationsEquivalent", "linksEquivalent", "licensesEquivalent"}

TextsOf(fn) ==
    CASE fn = "membersEquivalent" -> MemberTexts
      [] fn = "relationsEquivalent" -> RelationTexts
      [] fn = "linksEquivalent" -> LinkTexts
      [] fn = "licensesEquivalent" -> LicenseTexts

\* The named equivalence function applied to (a, b).
Equivalent(fn, a, b) ==
    CASE fn = "membersEquivalent" -> membersEquivalent(a, b)
      [] fn = "relationsEquivalent" -> relationsEquivalent(a, b)
      [] fn = "linksEquivalent" -> linksEquivalent(a, b)
      [] fn = "licensesEquivalent" -> licensesEquivalent(a, b)

EmptyDiff == [add |-> <<>>, remove |-> <<>>]

InitHelpers ==
    /\ TransportIdle
    /\ ResourceIdle
    /\ ClientIdle
    /\ hdone = FALSE
    /\ \/ /\ hfn = "computeMemberDiff"
          /\ ha \in MemberAttrs
          /\ hb \in MemberAttrs
          /\ hres = EmptyDiff
       \/ /\ hfn \in EquivalenceFns
          /\ ha \in TextsOf(hfn)
          /\ hb \in TextsOf(hfn)
          /\ hres = FALSE

CallComputeMemberDiff ==
    /\ hfn = "computeMemberDiff" /\ ~hdone
    /\ hres' = computeMemberDiff(ha, hb)
    /\ hdone' = TRUE
    /\ UNCHANGED <<hfn, ha, hb>>
    /\ HelpersOnly

CallMembersEquivalent ==
    /\ hfn = "membersEquivalent" /\ ~hdone
    /\ hres' = membersEquivalent(ha, hb)
    /\ hdone' = TRUE
    /\ UNCHANGED <<hfn, ha, hb>>
    /\ HelpersOnly

CallRelationsEquivalent ==
    /\ hfn = "relationsEquivalent" /\ ~hdone
    /\ hres' = relationsEquivalent(ha, hb)
    /\ hdone' = TRUE
    /\ UNCHANGED <<hfn, ha, hb>>
    /\ HelpersOnly

CallLinksEquivalent ==
    /\ hfn = "linksEquivalent" /\ ~hdone
    /\ hres' = linksEquivalent(ha, hb)
    /\ hdone' = TRUE
    /\ UNCHANGED <<hfn, ha, hb>>
    /\ HelpersOnly

CallLicensesEquivalent ==
    /\ hfn = "licensesEquivalent" /\ ~hdone
    /\ hres' = licensesEquivalent(ha, hb)
    /\ hdone' = TRUE
    /\ UNCHANGED <<hfn, ha, hb>>
    /\ HelpersOnly

NextHelpers ==
    \/ CallComputeMemberDiff
    \/ CallMembersEquivalent
    \/ CallRelationsEquivalent
    \/ CallLinksEquivalent
    \/ CallLicensesEquivalent

SpecHelpers == InitHelpers /\ [][NextHelpers]_vars

-----------------------------------------------------------------------------
\* Helpers: properties

\* The members of a known attribute, as the caller wrote them (null counts as empty).
MembersOf(attr) == IF attr.is = "value" THEN DecodeMembers(attr.value) ELSE <<>>

UniqueIDs(members) ==
    \A i, j \in 1..Len(members) : members[i].UserID = members[j].UserID => i = j

IDs(members) == {members[i].UserID : i \in 1..Len(members)}

\* The role S gives the user id (S has unique ids).
RoleIn(members, id) == (CHOOSE m \in Range(members) : m.UserID = id).Role

\* C3: for a stored list S and a planned list P with unique user ids (null = empty),
\* the additions are exactly the pairs of P whose id is not in S or whose role differs
\* from S's, and the removals exactly the ids of S that do not occur in P.
C3_MemberDiff ==
    (hfn = "computeMemberDiff" /\ hdone /\ ~IsUnknown(ha) /\ ~IsUnknown(hb)
        /\ UniqueIDs(MembersOf(ha)) /\ UniqueIDs(MembersOf(hb)))
    => LET S == MembersOf(ha)
           P == MembersOf(hb)
           wantAdd == {p \in Range(P) : p.UserID \notin IDs(S) \/ p.Role # RoleIn(S, p.UserID)}
           wantRemove == {id \in IDs(S) : id \notin IDs(P)}
       IN /\ Range(hres.add) = wantAdd
          /\ Len(hres.add) = Cardinality(wantAdd)
          /\ Range(hres.remove) = wantRemove
          /\ Len(hres.remove) = Cardinality(wantRemove)

C3_Witness ==
    /\ hfn = "computeMemberDiff" /\ hdone
    /\ ha = StringValue(JSONArray(<<[user_id |-> "u1", role |-> "member"], [user_id |-> "u2"]>>))
    /\ hb = StringValue(JSONArray(<<[user_id |-> "u1", role |-> "admin"]>>))
    /\ hres = [add |-> <<[UserID |-> "u1", Role |-> "admin"]>>, remove |-> <<"u2">>]

\* C4: each equivalence function is symmetric: equivalent(a,b) = equivalent(b,a) for
\* all well-formed serialized collections a and b, whatever elements they contain.
C4_Symmetric ==
    (hfn \in EquivalenceFns /\ hdone /\ Valid(ha) /\ Valid(hb))
    => hres = Equivalent(hfn, hb, ha)

\* C5: for each equivalence function and every serialized collection a, every
\* reordering p(a) is equivalent to a (so a is equivalent to itself), and p(a) compares
\* to any b exactly as a does.
C5_OrderInsensitive ==
    (hfn \in EquivalenceFns /\ hdone /\ Valid(ha))
    => \A p \in Perms(ha.items) :
        /\ Equivalent(hfn, ha, JSONArray(p))
        /\ Equivalent(hfn, JSONArray(p), hb) = hres
        /\ (hb = JSONArray(p)) => hres

C5_Witness ==
    /\ hfn = "linksEquivalent" /\ hdone
    /\ Len(ha.items) = 2 /\ ha.items[1] # ha.items[2]
    /\ hb = JSONArray(<<ha.items[2], ha.items[1]>>)
    /\ hres = TRUE

-----------------------------------------------------------------------------
\* Resources: attributes, ordering and JSON encoding

\* A scalar types.String attribute.
SNull == [is |-> "null", value |-> ""]

SUnknown == [is |-> "unknown", value |-> ""]

SVal(str) == [is |-> "value", value |-> str]

PlanAttrs(texts) == {StringNull} \cup {StringValue(t) : t \in texts}

\* Byte order of the strings the model sorts.
ByteOrder ==
    <<"auth", "baseUrl", "depends_on", "grpc", "http", "oncall", "openapi", "owns", "package",
      "rotation", "service:a", "service:b", "token">>

Rank(str) == CHOOSE i \in 1..Len(ByteOrder) : ByteOrder[i] = str

StrLess(x, y) == Rank(x) < Rank(y)

\* The keys of a Go map in the order json.Marshal writes them.
SortedKeys(S) ==
    CHOOSE seq \in [1..Cardinality(S) -> S] :
        \A i, j \in 1..Cardinality(S) : i < j => StrLess(seq[i], seq[j])

\* json.Marshal of a struct, given as the record of its keys: a key whose field is
\* omitempty and empty is left out.
Encode(obj, omitted) == [k \in DOMAIN obj \ omitted |-> obj[k]]

-----------------------------------------------------------------------------
\* Entity: remote shape and mapEntityToState

\* RelationInfo as the API returns it.
RelationInfo(type, targetType, targetID) == [Type |-> type, TargetType |-> targetType, TargetID |-> targetID]

RelOwnsA == RelationInfo("owns", "service", "a")

RelDependsB == RelationInfo("depends_on", "service", "b")

tfRelation(r) == [Type |-> r.Type, Target |-> r.TargetType \o ":" \o r.TargetID]

\* The less function of the sort.Slice call.
tfRelationLess(x, y) == IF x.Type # y.Type THEN StrLess(x.Type, y.Type) ELSE StrLess(x.Target, y.Target)

EncodeRelation(r) == [type |-> r.Type, target |-> r.Target]

\* The relations text mapEntityToState writes: converted, sorted by type then target.
MarshalRelations(infos) ==
    LET tf == [i \in 1..Len(infos) |-> tfRelation(infos[i])]
        sorted == CHOOSE p \in Perms(tf) : \A i, j \in 1..Len(p) : i < j => ~tfRelationLess(p[j], p[i])
    IN JSONArray([i \in 1..Len(sorted) |-> EncodeRelation(sorted[i])])

LinkInfo(name, url, icon) == [Name |-> name, URL |-> url, Icon |-> icon]

LinkDocs == LinkInfo("docs", "https://d", "book")

LinkRepo == LinkInfo("repo", "https://r", "")

EncodeLink(l) ==
    Encode([name |-> l.Name, url |-> l.URL, icon |-> l.Icon], IF l.Icon = "" THEN {"icon"} ELSE {})

MarshalLinks(links) == JSONArray([i \in 1..Len(links) |-> EncodeLink(links[i])])

LicenseInfo(title, vendor, seats) ==
    [Title |-> title, Vendor |-> vendor, Purchased |-> "", Expires |-> "", Seats |-> seats,
     Cost |-> "", Contract |-> "", Notes |-> ""]

LicIDE == LicenseInfo("IDE", "Acme", 5)

LicDB == LicenseInfo("DB", "", 0)

\* json.Marshal(LicenseInfo): title always, the other fields when not empty.
EncodeLicense(l) ==
    LET obj == [title |-> l.Title, vendor |-> l.Vendor, purchased |-> l.Purchased,
                expires |-> l.Expires, seats |-> l.Seats, cost |-> l.Cost,
                contract |-> l.Contract, notes |-> l.Notes]
    IN Encode(obj, {k \in {"vendor", "purchased", "expires", "cost", "contract", "notes"} : obj[k] = ""}
                   \cup (IF l.Seats = 0 THEN {"seats"} ELSE {}))

MarshalLicenses(lics) == JSONArray([i \in 1..Len(lics) |-> EncodeLicense(lics[i])])

\* Interfaces: a JSON object of objects. The text lists its members in the order
\* written; the decoded map[string]interface{} is a function of functions.
JSONObject(members) == [json |-> "object", members |-> members]

Member(key, fields) == [key |-> key, fields |-> fields]

Pair(key, val) == [key |-> key, val |-> val]

\* json.Unmarshal into map[string]interface{}.
DecodeObject(text) ==
    [k \in {text.members[i].key : i \in 1..Len(text.members)} |->
        LET m == CHOOSE m \in Range(text.members) : m.key = k
        IN [f \in {m.fields[i].key : i \in 1..Len(m.fields)} |->
                (CHOOSE q \in Range(m.fields) : q.key = f).val]]

\* json.Marshal of the map: keys sorted at both levels.
MarshalObject(map) ==
    LET keys == SortedKeys(DOMAIN map)
    IN JSONObject([i \in 1..Len(keys) |->
            LET inner == map[keys[i]]
                fkeys == SortedKeys(DOMAIN inner)
            IN Member(keys[i], [j \in 1..Len(fkeys) |-> Pair(fkeys[j], inner[fkeys[j]])])])

IsObject(text) == text.json = "object"

interfacesEquivalent(a, b) ==
    IF ~IsObject(a) \/ ~IsObject(b) THEN FALSE
    ELSE MarshalObject(DecodeObject(a)) = MarshalObject(DecodeObject(b))

IfaceHTTP == Member("http", <<Pair("openapi", "spec.yaml"), Pair("baseUrl", "https://api")>>)

IfaceGRPC == Member("grpc", <<Pair("package", "gw.v1")>>)

RelationPlanTexts ==
    { JSONArray(<<[type |-> "owns", target |-> "service:a"], [type |-> "depends_on", target |-> "service:b"]>>),
      JSONArray(<<[type |-> "depends_on", target |-> "service:b"], [type |-> "owns", target |-> "service:a"]>>) }

LinkPlanTexts ==
    { JSONArray(<<[name |-> "repo", url |-> "https://r"], [name |-> "docs", url |-> "https://d", icon |-> "book"]>>),
      JSONArray(<<[name |-> "docs", url |-> "https://d", icon |-> "book"], [name |-> "repo", url |-> "https://r"]>>) }

LicensePlanTexts ==
    { JSONArray(<<[title |-> "DB"], [title |-> "IDE", vendor |-> "Acme", seats |-> 5]>>),
      JSONArray(<<[title |-> "IDE", vendor |-> "Acme", seats |-> 5], [title |-> "DB"]>>) }

InterfacePlanTexts ==
    { JSONObject(<<IfaceHTTP, IfaceGRPC>>), JSONObject(<<IfaceGRPC>>) }

EntityPlans ==
    [id : {SUnknown}, name : {SVal("api-gateway")}, description : {SVal("edge gateway")},
     relations : PlanAttrs(RelationPlanTexts), links : PlanAttrs(LinkPlanTexts),
     licenses : PlanAttrs(LicensePlanTexts), interfaces : PlanAttrs(InterfacePlanTexts)]

\* What the API may hold for the entity.
RemoteRelations == {<<>>, <<RelOwnsA, RelDependsB>>, <<RelDependsB, RelOwnsA>>, <<RelOwnsA>>}

RemoteLinks == {<<>>, <<LinkDocs, LinkRepo>>, <<LinkRepo, LinkDocs>>, <<LinkRepo>>}

RemoteLicenses == {<<>>, <<LicIDE, LicDB>>, <<LicDB, LicIDE>>, <<LicIDE>>}

RemoteInterfaces == {DecodeObject(JSONObject(<<>>)), DecodeObject(JSONObject(<<IfaceHTTP, IfaceGRPC>>)),
                     DecodeObject(JSONObject(<<IfaceHTTP>>))}

RemoteEntities ==
    [Exists : BOOLEAN, ID : {"api-gateway"}, Name : {"api-gateway"}, Description : {"", "edge gateway (managed)"},
     Relations : RemoteRelations, Links : RemoteLinks, Licenses : RemoteLicenses,
     Interfaces : RemoteInterfaces]

\* mapEntityToState: a field the API returns empty leaves the state's value alone.
mapEntityToState(entity, state) ==
    [state EXCEPT
        !.id = SVal(entity.ID),
        !.name = SVal(entity.Name),
        !.description = IF entity.Description # "" THEN SVal(entity.Description) ELSE @,
        !.links = IF Len(entity.Links) > 0 THEN StringValue(MarshalLinks(entity.Links)) ELSE @,
        !.relations = IF Len(entity.Relations) > 0
                      THEN StringValue(MarshalRelations(entity.Relations)) ELSE @,
        !.interfaces = IF DOMAIN entity.Interfaces # {}
                       THEN StringValue(MarshalObject(entity.Interfaces)) ELSE @,
        !.licenses = IF Len(entity.Licenses) > 0
                     THEN StringValue(MarshalLicenses(entity.Licenses)) ELSE @]

\* json.Marshal(tfMember): role is omitempty.
EncodeMember(m) ==
    Encode([user_id |-> m.UserID, role |-> m.Role], IF m.Role = "" THEN {"role"} ELSE {})

MarshalMembers(members) == JSONArray([i \in 1..Len(members) |-> EncodeMember(members[i])])

\* The *Equivalent function a Read applies to a field.
EquivalentTexts(field, a, b) ==
    CASE field = "relations" -> relationsEquivalent(a, b)
      [] field = "links" -> linksEquivalent(a, b)
      [] field = "licenses" -> licensesEquivalent(a, b)
      [] field = "interfaces" -> interfacesEquivalent(a, b)
      [] field = "members" -> membersEquivalent(a, b)

\* The text mapEntityToState / mapTeamToState serializes for a field.
Marshal(field, value) ==
    CASE field = "relations" -> MarshalRelations(value)
      [] field = "links" -> MarshalLinks(value)
      [] field = "licenses" -> MarshalLicenses(value)
      [] field = "interfaces" -> MarshalObject(value)
      [] field = "members" -> MarshalMembers(value)

\* The API object's value for a field.
RemoteField(field, remote) ==
    CASE field = "relations" -> remote.Relations
      [] field = "links" -> remote.Links
      [] field = "licenses" -> remote.Licenses
      [] field = "interfaces" -> remote.Interfaces
      [] field = "members" -> remote.Members

Fetched(field, remote) == Marshal(field, RemoteField(field, remote))

\* The "preserve original ... if semantically equivalent" step of a Read.
Preserve(field, prev, fresh) ==
    IF ~IsNull(prev) /\ ~IsNull(fresh) /\ EquivalentTexts(field, prev.value, fresh.value)
    THEN prev ELSE fresh

\* Mutant of EntityReadState: the preserve step for links is missing.
EntityReadStateLinksFromServer(entity, state) ==
    LET mapped == mapEntityToState(entity, state)
    IN [mapped EXCEPT
            !.relations = Preserve("relations", state.relations, mapped.relations),
            !.interfaces = Preserve("interfaces", state.interfaces, mapped.interfaces),
            !.licenses = Preserve("licenses", state.licenses, mapped.licenses)]

\* The state EntityResource.Read persists on a successful GetEntity.
EntityReadState(entity, state) ==
    LET mapped == mapEntityToState(entity, state)
    IN [mapped EXCEPT
            !.relations = Preserve("relations", state.relations, mapped.relations),
            !.links = Preserve("links", state.links, mapped.links),
            !.interfaces = Preserve("interfaces", state.interfaces, mapped.interfaces),
            !.licenses = Preserve("licenses", state.licenses, mapped.licenses)]

-----------------------------------------------------------------------------
\* Resource handlers: what every Create and Read does with the response

\* One call of a client function: the HTTP method of the request it sends and whether
\* it returned without error.
Call(fn, method, ok) == [fn |-> fn, method |-> method, ok |-> ok]

\* resp.State.Set in Create: the state becomes the tracked state of the resource.
Created(state) ==
    /\ rstate' = state
    /\ rorig' = state
    /\ rplan' = rstate
    /\ rphase' = "tracked"
    /\ rdiag' = FALSE

\* resp.State.Set in Read.
Refreshed(state) ==
    /\ rstate' = state
    /\ rdiag' = FALSE
    /\ UNCHANGED <<rorig, rplan, rphase>>

\* resp.Diagnostics.AddError and return: the persisted state is not written.
Failed ==
    /\ rdiag' = TRUE
    /\ UNCHANGED <<rstate, rorig, rplan, rphase>>

\* resp.State.RemoveResource.
Removed ==
    /\ rstate' = NoState
    /\ rphase' = "removed"
    /\ rdiag' = FALSE
    /\ UNCHANGED <<rorig, rplan>>

-----------------------------------------------------------------------------
\* Entity resource

EntityAbsent ==
    [Exists |-> FALSE, ID |-> "api-gateway", Name |-> "api-gateway", Description |-> "",
     Relations |-> <<>>, Links |-> <<>>, Licenses |-> <<>>,
     Interfaces |-> DecodeObject(JSONObject(<<>>))]

\* The collections the API holds after it ingested the manifest: the planned
\* elements, in the order the server keeps them.
Ingested(field, attr, remotes) ==
    {r \in remotes : EquivalentTexts(field, attr.value, Marshal(field, r))}

EntityCreate ==
    /\ rkind = "entity" /\ rphase = "planned"
    /\ rop' = "create"
    /\ \E ok \in BOOLEAN, entity \in RemoteEntities :
        /\ rcalls' = <<Call("CreateEntity", "POST", ok)>>
        /\ LET plan == rstate
           IN IF ~ok
              THEN Failed /\ UNCHANGED rserver
              ELSE /\ entity.Exists
                   /\ entity.Description = ""
                   /\ IF IsNull(plan.relations) THEN entity.Relations = <<>>
                      ELSE entity.Relations \in Ingested("relations", plan.relations, RemoteRelations)
                   /\ IF IsNull(plan.links) THEN entity.Links = <<>>
                      ELSE entity.Links \in Ingested("links", plan.links, RemoteLinks)
                   /\ IF IsNull(plan.licenses) THEN entity.Licenses = <<>>
                      ELSE entity.Licenses \in Ingested("licenses", plan.licenses, RemoteLicenses)
                   /\ IF IsNull(plan.interfaces) THEN DOMAIN entity.Interfaces = {}
                      ELSE entity.Interfaces \in Ingested("interfaces", plan.interfaces, RemoteInterfaces)
                   /\ rserver' = entity
                   /\ Created([plan EXCEPT !.id = SVal(entity.ID)])
    /\ UNCHANGED <<rkind, rchanges>>
    /\ ResourceOnly

EntityRead ==
    /\ rkind = "entity" /\ rphase = "tracked"
    /\ rop' = "read"
    /\ \E ok \in BOOLEAN :
        /\ rcalls' = <<Call("GetEntity", "GET", ok /\ rserver.Exists)>>
        /\ IF ~ok \/ ~rserver.Exists
           THEN Failed
           ELSE Refreshed(EntityReadState(rserver, rstate))
    /\ UNCHANGED <<rkind, rserver, rchanges>>
    /\ ResourceOnly

-----------------------------------------------------------------------------
\* Team resource

TeamMember(userID, role) == [UserID |-> userID, Role |-> role]

RemoteMemberObjs ==
    {TeamMember("u1", "admin"), TeamMember("u1", "member"), TeamMember("u2", "member"), TeamMember("u2", "")}

RemoteMembers ==
    {s \in SeqsUpTo(RemoteMemberObjs, MaxElems) :
        \A i, j \in 1..Len(s) : s[i].UserID = s[j].UserID => i = j}

TeamMetadata == JSONObject(<<Member("oncall", <<Pair("rotation", "weekly")>>)>>)

TeamPlanMemberTexts ==
    { JSONArray(<<[user_id |-> "u1", role |-> "admin"], [user_id |-> "u2"]>>),
      JSONArray(<<[user_id |-> "u2", role |-> "member"], [user_id |-> "u1", role |-> "admin"]>>),
      JSONArray(<<[user_id |-> "u2", role |-> "member"]>>),
      JSONArray(<<>>),
      InvalidJSON }

TeamPlans ==
    [id : {SUnknown}, name : {SVal("platform")},
     metadata : {StringNull, StringValue(TeamMetadata), StringValue(InvalidJSON)},
     members : PlanAttrs(TeamPlanMemberTexts)]

RemoteTeams ==
    [Exists : BOOLEAN, ID : {"team-1"}, Name : {"platform"},
     Metadata : {DecodeObject(JSONObject(<<>>)), DecodeObject(TeamMetadata)},
     Members : RemoteMembers]

TeamAbsent ==
    [Exists |-> FALSE, ID |-> "team-1", Name |-> "platform",
     Metadata |-> DecodeObject(JSONObject(<<>>)), Members |-> <<>>]

mapTeamToState(team, state) ==
    [state EXCEPT
        !.id = SVal(team.ID),
        !.name = SVal(team.Name),
        !.metadata = IF DOMAIN team.Metadata # {} THEN StringValue(MarshalObject(team.Metadata)) ELSE @,
        !.members = IF Len(team.Members) > 0 THEN StringValue(MarshalMembers(team.Members)) ELSE @]

\* The member list the API reports after add_members: one entry per user asked for,
\* with the role asked for (a request without a role gets "member" or none).
UpdateTeam(addMembers, members) ==
    /\ {members[i].UserID : i \in 1..Len(members)} = {addMembers[i].UserID : i \in 1..Len(addMembers)}
    /\ \A i \in 1..Len(members) :
        LET asked == RoleMap(addMembers)[members[i].UserID]
        IN members[i].Role = asked \/ (asked = "" /\ members[i].Role = "member")

TeamCreate ==
    /\ rkind = "team" /\ rphase = "planned"
    /\ rop' = "create"
    /\ \E createOK, updateOK \in BOOLEAN, stored \in RemoteMembers :
        LET plan == rstate
            hasMetadata == ~IsNull(plan.metadata) /\ ~IsUnknown(plan.metadata)
            hasMembers == ~IsNull(plan.members) /\ ~IsUnknown(plan.members)
            members == DecodeMembers(plan.members.value)
            team == [Exists |-> TRUE, ID |-> "team-1", Name |-> plan.name.value,
                     Metadata |-> IF hasMetadata /\ IsObject(plan.metadata.value)
                                  THEN DecodeObject(plan.metadata.value)
                                  ELSE DecodeObject(JSONObject(<<>>)),
                     Members |-> <<>>]
        IN IF hasMetadata /\ ~IsObject(plan.metadata.value)
           THEN Failed /\ UNCHANGED rserver /\ rcalls' = <<>>
           ELSE IF ~createOK
           THEN Failed /\ UNCHANGED rserver /\ rcalls' = <<Call("CreateTeam", "POST", FALSE)>>
           ELSE IF hasMembers /\ ~Valid(plan.members.value)
           THEN Failed /\ rserver' = team /\ rcalls' = <<Call("CreateTeam", "POST", TRUE)>>
           ELSE IF hasMembers /\ Len(members) > 0
           THEN /\ rcalls' = <<Call("CreateTeam", "POST", TRUE), Call("UpdateTeam", "PUT", updateOK)>>
                /\ IF ~updateOK
                   THEN Failed /\ rserver' = team
                   ELSE /\ UpdateTeam([i \in 1..Len(members) |-> AddMemberRequest(members[i])], stored)
                        /\ rserver' = [team EXCEPT !.Members = stored]
                        /\ Created(mapTeamToState([team EXCEPT !.Members = stored], plan))
           ELSE /\ rserver' = team
                /\ rcalls' = <<Call("CreateTeam", "POST", TRUE)>>
                /\ Created(mapTeamToState(team, plan))
    /\ UNCHANGED <<rkind, rchanges>>
    /\ ResourceOnly

\* The member list the API reports after an update with add_members and
\* remove_members: the additions upserted, the removals gone, in the server's order.
UpdatedMembers(before, diff, members) ==
    LET want == Applied(before, diff)
    IN /\ {members[i].UserID : i \in 1..Len(members)} = DOMAIN want
       /\ \A i \in 1..Len(members) :
            LET asked == want[members[i].UserID]
            IN members[i].Role = asked \/ (asked = "" /\ members[i].Role = "member")

\* TeamResource.Update, called with a plan that differs from the persisted state.
TeamUpdate ==
    /\ rkind = "team" /\ rphase = "tracked"
    /\ rop' = "update"
    /\ \E planned \in TeamPlans, updateOK \in BOOLEAN, stored \in RemoteMembers :
        LET state == rstate
            plan == [planned EXCEPT !.id = state.id]
            hasMetadata == ~IsNull(plan.metadata) /\ ~IsUnknown(plan.metadata)
            diff == computeMemberDiff(state.members, plan.members)
            team == [rserver EXCEPT
                        !.Name = plan.name.value,
                        !.Metadata = IF hasMetadata THEN DecodeObject(plan.metadata.value) ELSE @,
                        !.Members = stored]
        IN /\ plan # state
           /\ IF hasMetadata /\ ~IsObject(plan.metadata.value)
              THEN Failed /\ UNCHANGED rserver /\ rcalls' = <<>>
              ELSE /\ rcalls' = <<Call("UpdateTeam", "PUT", updateOK /\ rserver.Exists)>>
                   /\ IF ~updateOK \/ ~rserver.Exists
                      THEN Failed /\ UNCHANGED rserver
                      ELSE /\ UpdatedMembers(rserver.Members, diff, stored)
                           /\ rserver' = team
                           /\ rstate' = mapTeamToState(team, plan)
                           /\ rorig' = rstate'
                           /\ rplan' = plan
                           /\ rdiag' = FALSE
                           /\ UNCHANGED rphase
    /\ UNCHANGED <<rkind, rchanges>>
    /\ ResourceOnly

\* The state TeamResource.Read persists on a successful GetTeam.
TeamReadState(team, state) ==
    LET mapped == mapTeamToState(team, state)
    IN [mapped EXCEPT !.members = Preserve("members", state.members, mapped.members)]

TeamRead ==
    /\ rkind = "team" /\ rphase = "tracked"
    /\ rop' = "read"
    /\ \E ok \in BOOLEAN :
        /\ rcalls' = <<Call("GetTeam", "GET", ok /\ rserver.Exists)>>
        /\ IF ~ok \/ ~rserver.Exists
           THEN Failed
           ELSE Refreshed(TeamReadState(rserver, rstate))
    /\ UNCHANGED <<rkind, rserver, rchanges>>
    /\ ResourceOnly

-----------------------------------------------------------------------------
\* API key resource

APIKeyPlans ==
    [id : {SUnknown}, name : {SVal("ci")}, key_prefix : {SUnknown}, raw_key : {SUnknown},
     expires_at : {SUnknown}]

RemoteAPIKeys ==
    [Exists : BOOLEAN, ID : {"key-1"}, Name : {"ci", "ci-renamed"}, KeyPrefix : {"shp_a", "shp_b"},
     ExpiresAt : {"", "2027-01-01"}, RevokedAt : {"", "2026-06-01"}]

APIKeyAbsent ==
    [Exists |-> FALSE, ID |-> "key-1", Name |-> "ci", KeyPrefix |-> "shp_a", ExpiresAt |-> "",
     RevokedAt |-> ""]

\* CreateAPIKeyResponse.RawKey for a key with the given prefix.
RawKey(prefix) == prefix \o "_9f3c"

APIKeyCreate ==
    /\ rkind = "api_key" /\ rphase = "planned"
    /\ rop' = "create"
    /\ \E ok \in BOOLEAN, key \in RemoteAPIKeys :
        /\ rcalls' = <<Call("CreateAPIKey", "POST", ok)>>
        /\ LET plan == rstate
           IN IF ~ok
              THEN Failed /\ UNCHANGED rserver
              ELSE /\ key.Exists /\ key.Name = plan.name.value /\ key.RevokedAt = ""
                   /\ rserver' = key
                   /\ Created([plan EXCEPT
                           !.id = SVal(key.ID),
                           !.key_prefix = SVal(key.KeyPrefix),
                           !.raw_key = SVal(RawKey(key.KeyPrefix)),
                           !.expires_at = IF key.ExpiresAt # "" THEN SVal(key.ExpiresAt) ELSE @])
    /\ UNCHANGED <<rkind, rchanges>>
    /\ ResourceOnly

\* Mutant of APIKeyReadState: raw_key is taken from the response, which has none.
APIKeyReadStateFromResponse(apiKey, state) ==
    [state EXCEPT
        !.name = SVal(apiKey.Name),
        !.key_prefix = SVal(apiKey.KeyPrefix),
        !.raw_key = SVal(""),
        !.expires_at = IF apiKey.ExpiresAt # "" THEN SVal(apiKey.ExpiresAt) ELSE @]

\* The state APIKeyResource.Read persists for a key that is not revoked.
APIKeyReadState(apiKey, state) ==
    [state EXCEPT
        !.name = SVal(apiKey.Name),
        !.key_prefix = SVal(apiKey.KeyPrefix),
        !.expires_at = IF apiKey.ExpiresAt # "" THEN SVal(apiKey.ExpiresAt) ELSE @]

\* Mutant of APIKeyRead: a key that is not listed is dropped from the state.
APIKeyReadDropsMissing ==
    /\ rkind = "api_key" /\ rphase = "tracked"
    /\ rop' = "read"
    /\ \E ok \in BOOLEAN :
        /\ rcalls' = <<Call("GetAPIKey", "GET", ok /\ rserver.Exists)>>
        /\ IF ~ok
           THEN Failed
           ELSE IF ~rserver.Exists \/ rserver.RevokedAt # ""
           THEN Removed
           ELSE Refreshed(APIKeyReadState(rserver, rstate))
    /\ UNCHANGED <<rkind, rserver, rchanges>>
    /\ ResourceOnly

APIKeyRead ==
    /\ rkind = "api_key" /\ rphase = "tracked"
    /\ rop' = "read"
    /\ \E ok \in BOOLEAN :
        /\ rcalls' = <<Call("GetAPIKey", "GET", ok /\ rserver.Exists)>>
        /\ IF ~ok \/ ~rserver.Exists
           THEN Failed
           ELSE IF rserver.RevokedAt # ""
           THEN Removed
           ELSE Refreshed(APIKeyReadState(rserver, rstate))
    /\ UNCHANGED <<rkind, rserver, rchanges>>
    /\ ResourceOnly

-----------------------------------------------------------------------------
\* K8s agent resource

K8sAgentPlans ==
    [id : {SUnknown}, cluster_id : {SVal("prod-eu")}, name : {SVal("prod")}, token : {SUnknown},
     token_prefix : {SUnknown}, status : {SUnknown}, expires_at : {SUnknown}]

RemoteK8sAgents ==
    [Exists : BOOLEAN, ClusterID : {"prod-eu"}, Name : {"prod", "prod-renamed"},
     TokenPrefix : {"", "agt_a"}, Status : {"active", "revoked"}, ExpiresAt : {"", "2027-01-01"}]

K8sAgentAbsent ==
    [Exists |-> FALSE, ClusterID |-> "prod-eu", Name |-> "prod", TokenPrefix |-> "",
     Status |-> "active", ExpiresAt |-> ""]

\* RegisterK8sAgentResponse.Token / TokenPrefix.
AgentTokens == {"agt_a_51d0", "agt_b_77e2"}

TokenPrefixOf(token) == IF token = "agt_a_51d0" THEN "agt_a" ELSE "agt_b"

K8sAgentCreate ==
    /\ rkind = "k8s_agent" /\ rphase = "planned"
    /\ rop' = "create"
    /\ \E ok \in BOOLEAN, agent \in RemoteK8sAgents, token \in AgentTokens :
        /\ rcalls' = <<Call("RegisterK8sAgent", "POST", ok)>>
        /\ LET plan == rstate
           IN IF ~ok
              THEN Failed /\ UNCHANGED rserver
              ELSE /\ agent.Exists /\ agent.Name = plan.name.value /\ agent.Status = "active"
                   /\ agent.TokenPrefix \in {"", TokenPrefixOf(token)}
                   /\ rserver' = agent
                   /\ Created([plan EXCEPT
                           !.id = SVal(agent.ClusterID),
                           !.token = SVal(token),
                           !.token_prefix = SVal(TokenPrefixOf(token)),
                           !.status = SVal("active"),
                           !.expires_at = IF agent.ExpiresAt # "" THEN SVal(agent.ExpiresAt) ELSE @])
    /\ UNCHANGED <<rkind, rchanges>>
    /\ ResourceOnly

\* The state K8sAgentResource.Read persists for an agent that is not revoked.
K8sAgentReadState(agent, state) ==
    [state EXCEPT
        !.id = SVal(agent.ClusterID),
        !.name = SVal(agent.Name),
        !.status = SVal(agent.Status),
        !.token_prefix = IF agent.TokenPrefix # "" THEN SVal(agent.TokenPrefix) ELSE @,
        !.expires_at = IF agent.ExpiresAt # "" THEN SVal(agent.ExpiresAt) ELSE @]

K8sAgentRead ==
    /\ rkind = "k8s_agent" /\ rphase = "tracked"
    /\ rop' = "read"
    /\ \E ok \in BOOLEAN :
        /\ rcalls' = <<Call("GetK8sAgent", "GET", ok /\ rserver.Exists)>>
        /\ IF ~ok \/ ~rserver.Exists
           THEN Removed
           ELSE IF rserver.Status = "revoked"
           THEN Removed
           ELSE Refreshed(K8sAgentReadState(rserver, rstate))
    /\ UNCHANGED <<rkind, rserver, rchanges>>
    /\ ResourceOnly

-----------------------------------------------------------------------------
\* Integration resource

IntegrationConfig == JSONObject(<<Member("auth", <<Pair("token", "ghp_s3cret")>>)>>)

MaskedConfig == DecodeObject(JSONObject(<<Member("auth", <<Pair("token", "****")>>)>>))

IntegrationPlans ==
    [id : {SUnknown}, name : {SVal("github")}, type : {SVal("github")}, status : {SUnknown},
     config_json : {StringValue(IntegrationConfig), StringValue(InvalidJSON)}]

IntegrationIDs == {7, 12}

RemoteIntegrations ==
    [Exists : BOOLEAN, ID : IntegrationIDs, Name : {"github", "github-renamed"}, Type : {"github"},
     Status : {"", "active", "error"},
     Config : {DecodeObject(JSONObject(<<>>)), MaskedConfig}]

IntegrationAbsent ==
    [Exists |-> FALSE, ID |-> 7, Name |-> "github", Type |-> "github", Status |-> "",
     Config |-> DecodeObject(JSONObject(<<>>))]

\* strconv.Itoa.
Itoa(n) == ToString(n)

\* strconv.Atoi: the integer and whether the text was one.
Atoi(str) ==
    IF \E n \in IntegrationIDs : Itoa(n) = str
    THEN [n |-> CHOOSE n \in IntegrationIDs : Itoa(n) = str, ok |-> TRUE]
    ELSE [n |-> 0, ok |-> FALSE]

mapIntegrationToState(integration, state) ==
    [state EXCEPT
        !.id = SVal(Itoa(integration.ID)),
        !.name = SVal(integration.Name),
        !.type = SVal(integration.Type),
        !.status = IF integration.Status # "" THEN SVal(integration.Status) ELSE @]

IntegrationCreate ==
    /\ rkind = "integration" /\ rphase = "planned"
    /\ rop' = "create"
    /\ \E ok \in BOOLEAN, integration \in RemoteIntegrations :
        LET plan == rstate
        IN IF ~IsObject(plan.config_json.value)
           THEN Failed /\ UNCHANGED rserver /\ rcalls' = <<>>
           ELSE IF ~ok
           THEN Failed /\ UNCHANGED rserver /\ rcalls' = <<Call("CreateIntegration", "POST", FALSE)>>
           ELSE /\ integration.Exists
                /\ rcalls' = <<Call("CreateIntegration", "POST", TRUE)>>
                /\ integration.Name = plan.name.value /\ integration.Type = plan.type.value
                /\ integration.Config = MaskedConfig
                /\ rserver' = integration
                /\ Created(mapIntegrationToState(integration, plan))
    /\ UNCHANGED <<rkind, rchanges>>
    /\ ResourceOnly

IntegrationRead ==
    /\ rkind = "integration" /\ rphase = "tracked"
    /\ rop' = "read"
    /\ \E ok \in BOOLEAN :
        LET id == Atoi(rstate.id.value)
        IN IF ~id.ok
           THEN Failed /\ rcalls' = <<>>
           ELSE IF ~ok \/ ~rserver.Exists \/ rserver.ID # id.n
           THEN Removed /\ rcalls' = <<Call("GetIntegration", "GET", FALSE)>>
           ELSE Refreshed(mapIntegrationToState(rserver, rstate))
                    /\ rcalls' = <<Call("GetIntegration", "GET", TRUE)>>
    /\ UNCHANGED <<rkind, rserver, rchanges>>
    /\ ResourceOnly

-----------------------------------------------------------------------------
\* Client: texts, get-by-key over a listed collection, ListEntities
\*
\* A text is a sequence of pieces. Keys and cursors are spelled piece by piece, a
\* character that formatting or URL parsing treats specially being a piece of its
\* own; fixed wording is one piece.

\* strconv.Quote as fmt's %q applies it: a double quote and a backslash are escaped.
Quote(text) ==
    LET Escaped(piece) == IF piece \in {"\"", "\\"} THEN <<"\\", piece>> ELSE <<piece>>
        body[i \in 0..Len(text)] == IF i = 0 THEN <<>> ELSE body[i - 1] \o Escaped(text[i])
    IN <<"\"">> \o body[Len(text)] \o <<"\"">>

\* strings.Contains on texts.
HasPart(text, part) ==
    \E i \in 0..(Len(text) - Len(part)) : SubSeq(text, i + 1, i + Len(part)) = part

\* A nil item pointer.
NilItem == [is |-> "nil"]

NoErr == <<>>

\* Indices of the listed items the scan accepts, for each lookup.
FlagMatches(listed, key) == {i \in 1..Len(listed) : listed[i].Key = key}

PolicyMatches(listed, key) == {i \in 1..Len(listed) : listed[i].Key = key}

\* Mutant of RoleMatches: the role is not compared.
RoleMatchesAnyRole(listed, userID, role) == {i \in 1..Len(listed) : listed[i].UserID = userID}

RoleMatches(listed, userID, role) ==
    {i \in 1..Len(listed) : listed[i].UserID = userID /\ listed[i].Role = role}

APIKeyMatches(listed, id) == {i \in 1..Len(listed) : listed[i].ID = id}

\* for _, x := range list { if match { return &x, nil } }: the first accepted item.
FirstOf(listed, matches) == listed[CHOOSE i \in matches : \A j \in matches : i <= j]

GetFeatureFlag(listOK, listed, key) ==
    IF ~listOK
    THEN [ok |-> FALSE, item |-> NilItem, err |-> <<"get feature flags: ", "transport error">>]
    ELSE IF FlagMatches(listed, key) # {}
    THEN [ok |-> TRUE, item |-> FirstOf(listed, FlagMatches(listed, key)), err |-> NoErr]
    ELSE [ok |-> FALSE, item |-> NilItem, err |-> <<"feature flag ">> \o Quote(key) \o <<" not found">>]

GetPolicy(listOK, listed, key) ==
    IF ~listOK
    THEN [ok |-> FALSE, item |-> NilItem, err |-> <<"list policies: ", "transport error">>]
    ELSE IF PolicyMatches(listed, key) # {}
    THEN [ok |-> TRUE, item |-> FirstOf(listed, PolicyMatches(listed, key)), err |-> NoErr]
    ELSE [ok |-> FALSE, item |-> NilItem, err |-> <<"policy ">> \o Quote(key) \o <<" not found">>]

GetUserRole(listOK, listed, userID, role) ==
    IF ~listOK
    THEN [ok |-> FALSE, item |-> NilItem, err |-> <<"list roles: ", "transport error">>]
    ELSE IF RoleMatches(listed, userID, role) # {}
    THEN [ok |-> TRUE, item |-> FirstOf(listed, RoleMatches(listed, userID, role)), err |-> NoErr]
    ELSE [ok |-> FALSE, item |-> NilItem,
          err |-> <<"role ">> \o Quote(role) \o <<" for user ">> \o Quote(userID) \o <<" not found">>]

GetAPIKey(listOK, listed, id) ==
    IF ~listOK
    THEN [ok |-> FALSE, item |-> NilItem, err |-> <<"list api keys: ", "transport error">>]
    ELSE IF APIKeyMatches(listed, id) # {}
    THEN [ok |-> TRUE, item |-> FirstOf(listed, APIKeyMatches(listed, id)), err |-> NoErr]
    ELSE [ok |-> FALSE, item |-> NilItem, err |-> <<"api key ">> \o Quote(id) \o <<" not found">>]

\* ---- ListEntities ----

EntitiesPath == <<"/api/v1/entities", "?", "limit", "=", "100">>

\* url := "/api/v1/entities?limit=100"; if cursor != "" { url += "&cursor=" + cursor }
ListURL(cur) == IF cur # <<>> THEN EntitiesPath \o <<"&", "cursor", "=">> \o cur ELSE EntitiesPath

\* Page.NextCursor, a *string: nil when the response has no nextCursor or a null one.
NilCursor == [set |-> FALSE, value |-> <<>>]

Ptr(text) == [set |-> TRUE, value |-> text]

RECURSIVE Split(_, _)
\* strings.Split on texts.
Split(text, sep) ==
    IF text = <<>> THEN << <<>> >>
    ELSE LET rest == Split(Tail(text), sep)
         IN IF Head(text) = sep
            THEN << <<>> >> \o rest
            ELSE << <<Head(text)>> \o rest[1] >> \o Tail(rest)

\* The query of a request URL: what follows the first "?".
QueryOf(url) ==
    LET marks == {i \in 1..Len(url) : url[i] = "?"}
    IN IF marks = {} THEN <<>>
       ELSE SubSeq(url, (CHOOSE i \in marks : \A j \in marks : i <= j) + 1, Len(url))

\* Query unescaping of a value: "+" stands for a space.
Unescape(text) == [i \in 1..Len(text) |-> IF text[i] = "+" THEN " " ELSE text[i]]

\* The cursor the server reads from a request URL: the value of the first cursor=
\* parameter of the query, unescaped; empty when there is none.
CursorParam(url) ==
    LET params == SelectSeq(Split(QueryOf(url), "&"),
                            LAMBDA q : Len(q) >= 2 /\ q[1] = "cursor" /\ q[2] = "=")
    IN IF params = <<>> THEN <<>> ELSE Unescape(SubSeq(params[1], 3, Len(params[1])))

MaxPages == 3

MaxPageItems == 2

\* Opaque next-page tokens a server may issue.
Cursors == {<<"p2">>, <<"p3">>, <<"a", "+", "b">>}

\* A finite chain of pages: every page but the last names the next one by a cursor
\* of its own, the last one has an empty or absent next-cursor; items are numbered
\* by page and position.
Chains ==
    UNION {
        {[i \in 1..n |-> [items |-> [j \in 1..counts[i] |-> 10 * i + j], next |-> nexts[i]]] :
            counts \in [1..n -> 0..MaxPageItems],
            nexts \in {f \in [1..n -> {NilCursor, Ptr(<<>>)} \cup {Ptr(c) : c \in Cursors}] :
                        /\ f[n] \in {NilCursor, Ptr(<<>>)}
                        /\ \A i \in 1..(n - 1) : f[i].value # <<>>
                        /\ \A i, j \in 1..(n - 1) : i # j => f[i] # f[j]}}
        : n \in 1..MaxPages}

BadRequest == [status |-> 400, items |-> <<>>, next |-> NilCursor]

EmptyPage == [status |-> 200, items |-> <<>>, next |-> NilCursor]

\* The responses the server may give to a list request: the first page without a
\* cursor, the page that follows the one which issued the cursor, and for a cursor
\* it never issued either a rejection or an empty last page.
Serve(chain, url) ==
    LET c == CursorParam(url)
        issuers == {i \in 1..(Len(chain) - 1) : chain[i].next = Ptr(c)}
        page(i) == [status |-> 200, items |-> chain[i].items, next |-> chain[i].next]
    IN IF c = <<>> THEN {page(1)}
       ELSE IF issuers # {} THEN {page((CHOOSE i \in issuers : \A j \in issuers : i <= j) + 1)}
       ELSE {BadRequest, EmptyPage}

\* One iteration of the loop of ListEntities.
ListEntitiesPage ==
    /\ lfn = "ListEntities" /\ lpc = "loop"
    /\ \E fault \in BOOLEAN, resp \in Serve(lserver, ListURL(cursor)) :
        LET url == ListURL(cursor)
        IN IF fault \/ resp.status # 200
           THEN /\ lsent' = Append(lsent, [url |-> url, outcome |-> IF fault THEN "fault" ELSE "rejected"])
                /\ lret' = [ok |-> FALSE, items |-> <<>>, err |-> <<"list entities: ", "request failed">>]
                /\ lpc' = "done"
                /\ UNCHANGED <<cursor, all>>
           ELSE /\ lsent' = Append(lsent, [url |-> url, outcome |-> "page"])
                /\ all' = all \o resp.items
                /\ IF ~resp.next.set \/ resp.next.value = <<>>
                   THEN /\ lpc' = "done"
                        /\ lret' = [ok |-> TRUE, items |-> all', err |-> NoErr]
                        /\ UNCHANGED cursor
                   ELSE /\ cursor' = resp.next.value
                        /\ UNCHANGED <<lpc, lret>>
    /\ UNCHANGED <<lfn, larg, lserver>>
    /\ ClientOnly

\* ---- get-by-key calls ----

MaxListed == 2

\* Keys a configuration may use; nothing validates them.
KeyTexts == {<<"beta">>, <<"dark-mode">>, <<"a", "\"", "b">>}

ListedFlags == [Key : KeyTexts, Name : {"n1", "n2"}]

ListedPolicies == [ID : {"pol-1", "pol-2"}, Key : KeyTexts]

UserIDTexts == {<<"u1">>, <<"corp", "\\", "alice">>}

RoleTexts == {<<"admin">>, <<"viewer">>}

ListedRoles == [UserID : UserIDTexts, Role : RoleTexts]

APIKeyIDs == {<<"k1">>, <<"k2">>}

ListedAPIKeys == [ID : APIKeyIDs, Name : {"ci", "deploy"}]

\* The single GET of a get-by-key call and what the function returned.
Returned(path, listOK, result) ==
    /\ lpc = "call"
    /\ lsent' = <<[url |-> <<path>>, outcome |-> IF listOK THEN "page" ELSE "fault"]>>
    /\ lret' = result
    /\ lpc' = "done"
    /\ UNCHANGED <<lfn, larg, lserver, cursor, all>>
    /\ ClientOnly

CallGetFeatureFlag ==
    /\ lfn = "GetFeatureFlag"
    /\ \E listOK \in BOOLEAN :
        Returned("/api/v1/admin/features", listOK, GetFeatureFlag(listOK, lserver, larg[1]))

CallGetPolicy ==
    /\ lfn = "GetPolicy"
    /\ \E listOK \in BOOLEAN :
        Returned("/api/v1/admin/policies", listOK, GetPolicy(listOK, lserver, larg[1]))

CallGetUserRole ==
    /\ lfn = "GetUserRole"
    /\ \E listOK \in BOOLEAN :
        Returned("/api/v1/roles", listOK, GetUserRole(listOK, lserver, larg[1], larg[2]))

CallGetAPIKey ==
    /\ lfn = "GetAPIKey"
    /\ \E listOK \in BOOLEAN :
        Returned("/api/v1/admin/api-keys", listOK, GetAPIKey(listOK, lserver, larg[1]))

InitClient ==
    /\ TransportIdle
    /\ HelpersIdle
    /\ ResourceIdle
    /\ cursor = <<>>
    /\ all = <<>>
    /\ lsent = <<>>
    /\ lret = [is |-> "absent"]
    /\ \/ /\ lfn = "ListEntities" /\ lpc = "loop"
          /\ larg = <<>>
          /\ lserver \in Chains
       \/ /\ lfn = "GetFeatureFlag" /\ lpc = "call"
          /\ larg \in {<<key>> : key \in KeyTexts}
          /\ lserver \in SeqsUpTo(ListedFlags, MaxListed)
       \/ /\ lfn = "GetPolicy" /\ lpc = "call"
          /\ larg \in {<<key>> : key \in KeyTexts}
          /\ lserver \in SeqsUpTo(ListedPolicies, MaxListed)
       \/ /\ lfn = "GetUserRole" /\ lpc = "call"
          /\ larg \in {<<userID, role>> : userID \in UserIDTexts, role \in RoleTexts}
          /\ lserver \in SeqsUpTo(ListedRoles, MaxListed)
       \/ /\ lfn = "GetAPIKey" /\ lpc = "call"
          /\ larg \in {<<id>> : id \in APIKeyIDs}
          /\ lserver \in SeqsUpTo(ListedAPIKeys, MaxListed)

NextClient ==
    \/ ListEntitiesPage
    \/ CallGetFeatureFlag \/ CallGetPolicy \/ CallGetUserRole \/ CallGetAPIKey

SpecClient == InitClient /\ [][NextClient]_vars

-----------------------------------------------------------------------------
\* Update and Delete of the write-once resources

\* Mutant of UpdateNotSupported: the Update is sent to the server and accepted.
UpdateSent ==
    /\ rphase = "tracked"
    /\ rop' = "update"
    /\ rcalls' = <<Call("Update", "PUT", TRUE)>>
    /\ Refreshed(rstate)
    /\ UNCHANGED <<rkind, rserver, rchanges>>
    /\ ResourceOnly

\* resp.Diagnostics.AddError("Update Not Supported", ...): the whole handler.
UpdateNotSupported ==
    /\ rphase = "tracked"
    /\ rop' = "update"
    /\ rcalls' = <<>>
    /\ Failed
    /\ UNCHANGED <<rkind, rserver, rchanges>>
    /\ ResourceOnly

APIKeyUpdate == rkind = "api_key" /\ UpdateNotSupported

\* APIKeyResource.Delete: the key is revoked, not deleted.
APIKeyDelete ==
    /\ rkind = "api_key" /\ rphase = "tracked"
    /\ rop' = "delete"
    /\ \E ok \in BOOLEAN :
        /\ rcalls' = <<Call("RevokeAPIKey", "POST", ok)>>
        /\ IF ok
           THEN /\ rserver' = [rserver EXCEPT !.RevokedAt = IF @ = "" THEN "2026-06-01" ELSE @]
                /\ Removed
           ELSE /\ UNCHANGED rserver
                /\ Failed
    /\ UNCHANGED <<rkind, rchanges>>
    /\ ResourceOnly

K8sAgentUpdate == rkind = "k8s_agent" /\ UpdateNotSupported

\* Mutant of K8sAgentDelete: a failed revoke ends the Delete with an error.
K8sAgentDeleteStopsOnRevokeError ==
    /\ rkind = "k8s_agent" /\ rphase = "tracked"
    /\ rop' = "delete"
    /\ \E revokeOK, deleteOK \in BOOLEAN :
        IF ~revokeOK
        THEN /\ rcalls' = <<Call("RevokeK8sAgent", "POST", FALSE)>>
             /\ UNCHANGED rserver
             /\ Failed
        ELSE /\ rcalls' = <<Call("RevokeK8sAgent", "POST", TRUE), Call("DeleteK8sAgent", "DELETE", deleteOK)>>
             /\ rserver' = [rserver EXCEPT !.Status = "revoked", !.Exists = IF deleteOK THEN FALSE ELSE @]
             /\ IF deleteOK THEN Removed ELSE Failed
    /\ UNCHANGED <<rkind, rchanges>>
    /\ ResourceOnly

\* K8sAgentResource.Delete: revoke, whose error is dropped, then delete. A Delete that
\* reports no error makes the host engine drop the persisted state.
K8sAgentDelete ==
    /\ rkind = "k8s_agent" /\ rphase = "tracked"
    /\ rop' = "delete"
    /\ \E revokeOK, deleteOK \in BOOLEAN :
        /\ rcalls' = <<Call("RevokeK8sAgent", "POST", revokeOK), Call("DeleteK8sAgent", "DELETE", deleteOK)>>
        /\ rserver' = [rserver EXCEPT !.Status = IF revokeOK THEN "revoked" ELSE @,
                                      !.Exists = IF deleteOK THEN FALSE ELSE @]
        /\ IF deleteOK THEN Removed ELSE Failed
    /\ UNCHANGED <<rkind, rchanges>>
    /\ ResourceOnly

-----------------------------------------------------------------------------
\* User role resource

UserRolePlans == [id : {SUnknown}, user_id : {SVal("u1")}, role : {SVal("admin")}, email : {SUnknown}]

\* The binding as ListRoles reports it (Exists: whether it is listed).
RemoteUserRoles == [Exists : BOOLEAN, UserID : {"u1"}, Role : {"admin"}, Email : {"", "u1@example.com"}]

UserRoleAbsent == [Exists |-> FALSE, UserID |-> "u1", Role |-> "admin", Email |-> ""]

UserRoleCreate ==
    /\ rkind = "user_role" /\ rphase = "planned"
    /\ rop' = "create"
    /\ \E addOK, getOK \in BOOLEAN, binding \in RemoteUserRoles :
        LET plan == rstate
            userID == plan.user_id.value
            role == plan.role.value
        IN IF ~addOK
           THEN /\ rcalls' = <<Call("AddUserRole", "POST", FALSE)>>
                /\ UNCHANGED rserver
                /\ Failed
           ELSE /\ binding.Exists /\ binding.UserID = userID /\ binding.Role = role
                /\ rserver' = binding
                /\ rcalls' = <<Call("AddUserRole", "POST", TRUE), Call("GetUserRole", "GET", getOK)>>
                /\ Created([plan EXCEPT
                        !.id = SVal(userID \o ":" \o role),
                        !.email = IF getOK /\ binding.Email # "" THEN SVal(binding.Email) ELSE @])
    /\ UNCHANGED <<rkind, rchanges>>
    /\ ResourceOnly

UserRoleRead ==
    /\ rkind = "user_role" /\ rphase = "tracked"
    /\ rop' = "read"
    /\ \E ok \in BOOLEAN :
        LET found == ok /\ rserver.Exists
                        /\ rserver.UserID = rstate.user_id.value /\ rserver.Role = rstate.role.value
        IN /\ rcalls' = <<Call("GetUserRole", "GET", found)>>
           /\ IF ~found
              THEN Removed
              ELSE Refreshed([rstate EXCEPT
                        !.id = SVal(rstate.user_id.value \o ":" \o rstate.role.value),
                        !.email = IF rserver.Email # "" THEN SVal(rserver.Email) ELSE @])
    /\ UNCHANGED <<rkind, rserver, rchanges>>
    /\ ResourceOnly

UserRoleUpdate == rkind = "user_role" /\ UpdateNotSupported

\* The request of AddUserRole: the user in the path, the role in the JSON body.
AddUserRole(userID, req) ==
    [method |-> "POST", path |-> <<"/api/v1/roles/users/", userID, "/roles">>, body |-> <<req.Role>>]

\* The request of RemoveUserRole: Client.Delete takes a path only and sends no body;
\* req is used in the text of the returned error alone.
RemoveUserRole(userID, req) ==
    [method |-> "DELETE", path |-> <<"/api/v1/roles/users/", userID, "/roles">>, body |-> <<>>]

\* UserRoleResource.Delete: one RemoveUserRole call for the user and role of the state.
UserRoleDelete ==
    /\ rkind = "user_role" /\ rphase = "tracked"
    /\ rop' = "delete"
    /\ \E ok \in BOOLEAN :
        LET userID == rstate.user_id.value
            role == rstate.role.value
            sent == RemoveUserRole(userID, [Role |-> role])
        IN /\ rcalls' = <<[fn |-> "RemoveUserRole", method |-> sent.method, ok |-> ok,
                            path |-> sent.path, body |-> sent.body]>>
           /\ IF ok
              THEN /\ rserver' = [rserver EXCEPT !.Exists = FALSE]
                   /\ Removed
              ELSE /\ UNCHANGED rserver
                   /\ Failed
    /\ UNCHANGED <<rkind, rchanges>>
    /\ ResourceOnly

-----------------------------------------------------------------------------
\* Group role mapping resource

GroupRoleMappingPlans ==
    [id : {SUnknown}, group_name : {SVal("eng")}, role_name : {SVal("editor")},
     provider : {SNull, SUnknown, SVal(""), SVal("okta")}, description : {SNull, SVal("engineers")}]

\* The mapping as GetGroupRoles reports it (Exists: whether the role is listed).
RemoteGroupRoles == [Exists : BOOLEAN, RoleName : {"editor"}, Provider : {"", "default", "okta"}]

GroupRoleAbsent == [Exists |-> FALSE, RoleName |-> "editor", Provider |-> ""]

GroupRoleMappingCreate ==
    /\ rkind = "group_role_mapping" /\ rphase = "planned"
    /\ rop' = "create"
    /\ \E ok \in BOOLEAN, mapping \in RemoteGroupRoles :
        LET plan == rstate
            provider == IF plan.provider.is = "value" /\ plan.provider.value # ""
                        THEN plan.provider.value ELSE "default"
            description == IF plan.description.is = "value" THEN plan.description.value ELSE ""
        IN /\ rcalls' = <<Call("AssignGroupRole", "POST", ok)>>
           /\ IF ~ok
              THEN Failed /\ UNCHANGED rserver
              ELSE /\ mapping.Exists /\ mapping.RoleName = plan.role_name.value
                   /\ mapping.Provider \in {"", provider}
                   /\ rserver' = mapping
                   /\ Created([plan EXCEPT
                           !.id = SVal(plan.group_name.value \o ":" \o plan.role_name.value),
                           !.provider = SVal(provider),
                           !.description = SVal(description)])
    /\ UNCHANGED <<rkind, rchanges>>
    /\ ResourceOnly

GroupRoleMappingRead ==
    /\ rkind = "group_role_mapping" /\ rphase = "tracked"
    /\ rop' = "read"
    /\ \E ok \in BOOLEAN :
        /\ rcalls' = <<Call("GetGroupRoles", "GET", ok)>>
        /\ IF ~ok
           THEN Failed
           ELSE IF ~(rserver.Exists /\ rserver.RoleName = rstate.role_name.value)
           THEN Removed
           ELSE Refreshed([rstate EXCEPT
                    !.id = SVal(rstate.group_name.value \o ":" \o rstate.role_name.value),
                    !.provider = IF rserver.Provider # "" THEN SVal(rserver.Provider) ELSE @])
    /\ UNCHANGED <<rkind, rserver, rchanges>>
    /\ ResourceOnly

GroupRoleMappingUpdate == rkind = "group_role_mapping" /\ UpdateNotSupported

-----------------------------------------------------------------------------
\* Platform policy resource: policies are pre-seeded on the server

PlatformPolicyPlans ==
    [id : {SUnknown}, key : {SVal(<<"mfa-required">>), SVal(<<"custom-policy">>)}, name : {SUnknown},
     enabled : BOOLEAN, enforcement : {SUnknown, SVal("strict")}]

\* The policy as ListPolicies reports it (Exists: whether it is listed).
RemotePolicies ==
    [Exists : BOOLEAN, ID : {"pol-1"}, Key : {<<"mfa-required">>}, Name : {"Require MFA"},
     Enabled : BOOLEAN, Enforcement : {"", "advisory", "strict"}]

SeededPolicies == {p \in RemotePolicies : ~p.Enabled /\ p.Enforcement = "advisory"}

\* What ListPolicies returns for the remote object.
ListedPolicy(remote) == IF remote.Exists THEN <<remote>> ELSE <<>>

\* The policy after PUT /policies/{id}: enforcement is omitempty in the request.
UpdatePolicy(remote, enabled, enforcement) ==
    [remote EXCEPT !.Enabled = enabled, !.Enforcement = IF enforcement # "" THEN enforcement ELSE @]

mapPolicyToState(policy, state) ==
    [state EXCEPT
        !.id = SVal(policy.ID),
        !.key = SVal(policy.Key),
        !.name = SVal(policy.Name),
        !.enabled = policy.Enabled,
        !.enforcement = IF policy.Enforcement # "" THEN SVal(policy.Enforcement) ELSE @]

\* Mutant of PlatformPolicyCreate: a policy that is not listed is created with a POST.
PlatformPolicyCreateOrPost ==
    /\ rkind = "platform_policy" /\ rphase = "planned"
    /\ rop' = "create"
    /\ \E listOK, updateOK \in BOOLEAN :
        LET plan == rstate
            got == GetPolicy(listOK, ListedPolicy(rserver), plan.key.value)
            made == [Exists |-> TRUE, ID |-> "pol-1", Key |-> plan.key.value, Name |-> "Require MFA",
                     Enabled |-> plan.enabled, Enforcement |-> plan.enforcement.value]
        IN IF ~got.ok
           THEN /\ rcalls' = <<Call("GetPolicy", "GET", FALSE), Call("CreatePolicy", "POST", TRUE)>>
                /\ rserver' = made
                /\ Created(mapPolicyToState(made, plan))
           ELSE /\ rcalls' = <<Call("GetPolicy", "GET", TRUE), Call("UpdatePolicy", "PUT", updateOK)>>
                /\ IF ~updateOK
                   THEN Failed /\ UNCHANGED rserver
                   ELSE /\ rserver' = UpdatePolicy(got.item, plan.enabled, plan.enforcement.value)
                        /\ Created(mapPolicyToState(rserver', plan))
    /\ UNCHANGED <<rkind, rchanges>>
    /\ ResourceOnly

PlatformPolicyCreate ==
    /\ rkind = "platform_policy" /\ rphase = "planned"
    /\ rop' = "create"
    /\ \E listOK, updateOK \in BOOLEAN :
        LET plan == rstate
            got == GetPolicy(listOK, ListedPolicy(rserver), plan.key.value)
        IN IF ~got.ok
           THEN /\ rcalls' = <<Call("GetPolicy", "GET", FALSE)>>
                /\ Failed /\ UNCHANGED rserver
           ELSE /\ rcalls' = <<Call("GetPolicy", "GET", TRUE), Call("UpdatePolicy", "PUT", updateOK)>>
                /\ IF ~updateOK
                   THEN Failed /\ UNCHANGED rserver
                   ELSE /\ rserver' = UpdatePolicy(got.item, plan.enabled, plan.enforcement.value)
                        /\ Created(mapPolicyToState(rserver', plan))
    /\ UNCHANGED <<rkind, rchanges>>
    /\ ResourceOnly

PlatformPolicyRead ==
    /\ rkind = "platform_policy" /\ rphase = "tracked"
    /\ rop' = "read"
    /\ \E listOK \in BOOLEAN :
        LET got == GetPolicy(listOK, ListedPolicy(rserver), rstate.key.value)
        IN /\ rcalls' = <<Call("GetPolicy", "GET", got.ok)>>
           /\ IF ~got.ok THEN Failed ELSE Refreshed(mapPolicyToState(got.item, rstate))
    /\ UNCHANGED <<rkind, rserver, rchanges>>
    /\ ResourceOnly

\* Mutant of DetachOnly: the Delete removes the remote object.
DetachAndDestroy ==
    /\ rphase = "tracked"
    /\ rop' = "delete"
    /\ rcalls' = <<Call("Delete", "DELETE", TRUE)>>
    /\ rserver' = [rserver EXCEPT !.Exists = FALSE]
    /\ Removed
    /\ UNCHANGED <<rkind, rchanges>>
    /\ ResourceOnly

\* A Delete handler with an empty body: nothing is called or reported, and the host
\* engine drops the persisted state.
DetachOnly ==
    /\ rphase = "tracked"
    /\ rop' = "delete"
    /\ rcalls' = <<>>
    /\ Removed
    /\ UNCHANGED <<rkind, rserver, rchanges>>
    /\ ResourceOnly

PlatformPolicyDelete == rkind = "platform_policy" /\ DetachOnly

-----------------------------------------------------------------------------
\* Tenant settings resource: a singleton that always exists on the server

TenantSettingsPlans ==
    [id : {SUnknown}, primary_color : {SNull, SVal("#112233")}, platform_name : {SNull, SVal("Acme Hub")}]

RemoteSettings ==
    [Exists : {TRUE}, ID : {"settings-1"}, PrimaryColor : {"", "#112233", "#ffffff"},
     PlatformName : {"", "Acme Hub"}]

DefaultSettings == [Exists |-> TRUE, ID |-> "settings-1", PrimaryColor |-> "#ffffff", PlatformName |-> ""]

\* attr.ValueString(): "" for a null or unknown attribute.
ValueString(attr) == IF attr.is = "value" THEN attr.value ELSE ""

mapSettingsToState(settings, state) ==
    [state EXCEPT
        !.id = SVal(settings.ID),
        !.primary_color = IF settings.PrimaryColor # "" THEN SVal(settings.PrimaryColor) ELSE @,
        !.platform_name = IF settings.PlatformName # "" THEN SVal(settings.PlatformName) ELSE @]

TenantSettingsCreate ==
    /\ rkind = "tenant_settings" /\ rphase = "planned"
    /\ rop' = "create"
    /\ \E ok \in BOOLEAN, settings \in RemoteSettings :
        /\ rcalls' = <<Call("UpdateSettings", "PUT", ok)>>
        /\ IF ~ok
           THEN Failed /\ UNCHANGED rserver
           ELSE /\ settings.PrimaryColor \in {ValueString(rstate.primary_color), rserver.PrimaryColor}
                /\ ValueString(rstate.primary_color) # "" => settings.PrimaryColor = rstate.primary_color.value
                /\ settings.PlatformName \in {ValueString(rstate.platform_name), rserver.PlatformName}
                /\ ValueString(rstate.platform_name) # "" => settings.PlatformName = rstate.platform_name.value
                /\ rserver' = settings
                /\ Created(mapSettingsToState(settings, rstate))
    /\ UNCHANGED <<rkind, rchanges>>
    /\ ResourceOnly

TenantSettingsRead ==
    /\ rkind = "tenant_settings" /\ rphase = "tracked"
    /\ rop' = "read"
    /\ \E ok \in BOOLEAN :
        /\ rcalls' = <<Call("GetSettings", "GET", ok)>>
        /\ IF ~ok THEN Failed ELSE Refreshed(mapSettingsToState(rserver, rstate))
    /\ UNCHANGED <<rkind, rserver, rchanges>>
    /\ ResourceOnly

TenantSettingsDelete == rkind = "tenant_settings" /\ DetachOnly

-----------------------------------------------------------------------------
\* The remote object changing behind the provider, and the specification

MaxRemoteChanges == 1

Kinds ==
    {"entity", "team", "api_key", "k8s_agent", "integration",
     "user_role", "group_role_mapping", "platform_policy", "tenant_settings"}

Plans(kind) ==
    CASE kind = "entity" -> EntityPlans
      [] kind = "team" -> TeamPlans
      [] kind = "api_key" -> APIKeyPlans
      [] kind = "k8s_agent" -> K8sAgentPlans
      [] kind = "integration" -> IntegrationPlans
      [] kind = "user_role" -> UserRolePlans
      [] kind = "group_role_mapping" -> GroupRoleMappingPlans
      [] kind = "platform_policy" -> PlatformPolicyPlans
      [] kind = "tenant_settings" -> TenantSettingsPlans

Absent(kind) ==
    CASE kind = "entity" -> EntityAbsent
      [] kind = "team" -> TeamAbsent
      [] kind = "api_key" -> APIKeyAbsent
      [] kind = "k8s_agent" -> K8sAgentAbsent
      [] kind = "integration" -> IntegrationAbsent
      [] kind = "user_role" -> UserRoleAbsent
      [] kind = "group_role_mapping" -> GroupRoleAbsent
      [] kind = "platform_policy" -> CHOOSE p \in SeededPolicies : p.Exists
      [] kind = "tenant_settings" -> DefaultSettings

Remotes(kind) ==
    CASE kind = "entity" -> RemoteEntities
      [] kind = "team" -> RemoteTeams
      [] kind = "api_key" -> RemoteAPIKeys
      [] kind = "k8s_agent" -> RemoteK8sAgents
      [] kind = "integration" -> RemoteIntegrations
      [] kind = "user_role" -> RemoteUserRoles
      [] kind = "group_role_mapping" -> RemoteGroupRoles
      [] kind = "platform_policy" -> RemotePolicies
      [] kind = "tenant_settings" -> RemoteSettings

\* Somebody else edits, revokes or deletes the remote object: one field changes.
RemoteChange ==
    /\ rphase = "tracked"
    /\ rchanges < MaxRemoteChanges
    /\ \E remote \in Remotes(rkind) :
        /\ Cardinality({k \in DOMAIN remote : remote[k] # rserver[k]}) = 1
        /\ rserver' = remote
    /\ rchanges' = rchanges + 1
    /\ rop' = "remote"
    /\ rdiag' = FALSE
    /\ rcalls' = <<>>
    /\ UNCHANGED <<rkind, rphase, rstate, rorig, rplan>>
    /\ ResourceOnly

InitResource ==
    /\ TransportIdle
    /\ HelpersIdle
    /\ ClientIdle
    /\ rkind \in Kinds
    /\ rphase = "planned"
    /\ rstate \in Plans(rkind)
    /\ rorig = NoState
    /\ rplan = NoState
    /\ rserver = Absent(rkind)
    /\ rop = "none"
    /\ rdiag = FALSE
    /\ rcalls = <<>>
    /\ rchanges = 0

NextResource ==
    \/ EntityCreate \/ EntityRead
    \/ TeamCreate \/ TeamRead \/ TeamUpdate
    \/ APIKeyCreate \/ APIKeyRead
    \/ K8sAgentCreate \/ K8sAgentRead
    \/ IntegrationCreate \/ IntegrationRead
    \/ APIKeyUpdate \/ APIKeyDelete \/ K8sAgentUpdate \/ K8sAgentDelete
    \/ UserRoleCreate \/ UserRoleRead \/ UserRoleUpdate \/ UserRoleDelete
    \/ GroupRoleMappingCreate \/ GroupRoleMappingRead \/ GroupRoleMappingUpdate
    \/ PlatformPolicyCreate \/ PlatformPolicyRead \/ PlatformPolicyDelete
    \/ TenantSettingsCreate \/ TenantSettingsRead \/ TenantSettingsDelete
    \/ RemoteChange

SpecResource == InitResource /\ [][NextResource]_vars

-----------------------------------------------------------------------------
\* Resources: properties of Read

ReadStep == rop' = "read" /\ rphase = "tracked"

SecretOf(kind, state) ==
    CASE kind = "api_key" -> state.raw_key
      [] kind = "k8s_agent" -> state.token
      [] kind = "integration" -> state.config_json

SecretKinds == {"api_key", "k8s_agent", "integration"}

\* C6: for an API key (raw_key), a k8s agent (token) and an integration
\* (config_json), the persisted field holds the value Create stored for as long as
\* the resource is tracked, and every Read that writes the state writes the field
\* it found there: Read never empties or replaces it, whatever the API returns.
C6_SecretPreserved ==
    /\ [](rkind \in SecretKinds /\ rphase = "tracked"
            => /\ SecretOf(rkind, rstate) = SecretOf(rkind, rorig)
               /\ SecretOf(rkind, rstate).is = "value")
    /\ [][ReadStep /\ rkind \in SecretKinds /\ rphase' = "tracked"
            => SecretOf(rkind, rstate') = SecretOf(rkind, rstate)]_vars

\* A Read refreshed the other attributes of an API key from a changed remote
\* object and the raw key is the one Create stored.
C6_Witness ==
    /\ rkind = "api_key" /\ rphase = "tracked" /\ rop = "read" /\ ~rdiag
    /\ rstate.name # rorig.name
    /\ rstate.raw_key = rorig.raw_key
    /\ rstate.raw_key = SVal(RawKey(rorig.key_prefix.value))

OrderInsensitive(kind) ==
    CASE kind = "entity" -> {"relations", "links", "licenses", "interfaces"}
      [] kind = "team" -> {"members"}
      [] OTHER -> {}

\* C7: on a successful Read of an entity or team, each of relations, links,
\* licenses, interfaces and members whose stored value is non-null and equivalent
\* to the freshly fetched value is persisted exactly as it was stored.
C7_RetainedVerbatim ==
    [][ReadStep /\ ~rdiag'
        => \A field \in OrderInsensitive(rkind) :
              (/\ ~IsNull(rstate[field])
               /\ EquivalentTexts(field, rstate[field].value, Fetched(field, rserver)))
              => rstate'[field] = rstate[field]]_vars

\* A Read of an entity kept the user's relations, links, licenses and interfaces
\* although the text the server's answer serializes to differs from each of them.
C7_Witness ==
    /\ rkind = "entity" /\ rphase = "tracked" /\ rop = "read" /\ ~rdiag
    /\ \A field \in OrderInsensitive("entity") :
        /\ ~IsNull(rstate[field])
        /\ rstate[field] = rorig[field]
        /\ rstate[field].value # Fetched(field, rserver)
        /\ EquivalentTexts(field, rstate[field].value, Fetched(field, rserver))

-----------------------------------------------------------------------------
\* Resources: properties of the calls an operation makes and of what it reports

FailedCalls == {i \in 1..Len(rcalls) : ~rcalls[i].ok}

\* C14: whenever a client call made by a resource operation returns an error, the
\* operation reports an error diagnostic; the single exception is a failed revoke
\* in the Delete of a Kubernetes agent.
C14_ErrorsSurface ==
    FailedCalls # {}
    => \/ rdiag
       \/ /\ rkind = "k8s_agent" /\ rop = "delete"
          /\ \A i \in FailedCalls : rcalls[i].fn = "RevokeK8sAgent"

WriteOnceKinds == {"api_key", "k8s_agent", "user_role", "group_role_mapping"}

\* C15: an Update of an API key, a Kubernetes agent, a user-role binding or a
\* group-role mapping always reports an error diagnostic, sends no HTTP request and
\* leaves the persisted state and the remote object as they were.
C15_UpdateRejected ==
    [][(rop' = "update" /\ rkind \in WriteOnceKinds)
        => /\ rdiag'
           /\ rcalls' = <<>>
           /\ rstate' = rstate /\ rphase' = rphase
           /\ rserver' = rserver]_vars

\* An Update of a tracked write-once resource was rejected after the remote object
\* had changed behind the provider.
C15_Witness ==
    /\ rkind \in WriteOnceKinds /\ rop = "update" /\ rphase = "tracked"
    /\ rdiag /\ rcalls = <<>> /\ rchanges > 0

\* C16: the Delete of a Kubernetes agent calls revoke first and then always calls
\* delete, whatever revoke returned; it reports an error, and keeps the persisted
\* state, exactly when the delete call failed.
C16_RevokeThenDelete ==
    (rkind = "k8s_agent" /\ rop = "delete")
    => /\ Len(rcalls) = 2
       /\ rcalls[1].fn = "RevokeK8sAgent" /\ rcalls[2].fn = "DeleteK8sAgent"
       /\ rdiag <=> ~rcalls[2].ok
       /\ rphase = "removed" <=> rcalls[2].ok

\* The revoke failed, the delete went through, and nothing was reported.
C16_Witness ==
    /\ rkind = "k8s_agent" /\ rop = "delete"
    /\ ~rcalls[1].ok /\ rcalls[2].ok
    /\ ~rdiag /\ rphase = "removed" /\ ~rserver.Exists

DetachKinds == {"tenant_settings", "platform_policy"}

\* C17: the Delete of the tenant settings or of a platform policy sends no HTTP
\* request, reports no error and leaves the remote object unchanged.
C17_DeleteIsLocal ==
    [][(rop' = "delete" /\ rkind \in DetachKinds)
        => /\ rcalls' = <<>>
           /\ ~rdiag'
           /\ rserver' = rserver]_vars

\* A platform policy that Create had enabled was deleted from the state and is still
\* enabled on the server.
C17_Witness ==
    /\ rkind = "platform_policy" /\ rop = "delete" /\ rphase = "removed"
    /\ rcalls = <<>> /\ ~rdiag
    /\ rserver.Exists /\ rserver.Enabled

\* C18: the Create of a platform policy never sends a POST: it looks the policy up by
\* key in the listed policies and then updates it by id; when no listed policy has
\* the key it reports an error, sends no update and persists no state.
C18_CreateAdopts ==
    (rkind = "platform_policy" /\ rop = "create")
    => /\ \A i \in 1..Len(rcalls) : rcalls[i].method # "POST"
       /\ rcalls # <<>> /\ rcalls[1] = Call("GetPolicy", "GET", rcalls[1].ok)
       /\ rcalls[1].ok
            => /\ Len(rcalls) = 2
               /\ rcalls[2] = Call("UpdatePolicy", "PUT", rcalls[2].ok)
               /\ rphase = "tracked" <=> rcalls[2].ok
       /\ (rphase = "planned" /\ ~(rserver.Exists /\ rserver.Key = rstate.key.value))
            => /\ rcalls = <<Call("GetPolicy", "GET", FALSE)>>
               /\ rdiag
               /\ rorig = NoState

\* The planned key is not among the listed policies: Create reported an error after
\* the lookup and nothing else happened.
C18_Witness ==
    /\ rkind = "platform_policy" /\ rop = "create" /\ rphase = "planned"
    /\ rstate.key.value = <<"custom-policy">> /\ rserver.Exists /\ rserver.Key # rstate.key.value
    /\ rcalls = <<Call("GetPolicy", "GET", FALSE)>> /\ rdiag /\ rorig = NoState

-----------------------------------------------------------------------------
\* Transport: properties of the errors doRequest returns

\* The typed error the specification describes for a response: code and message parsed
\* from a {code, message} body; the raw body when both are empty; the reason phrase of
\* the status when the body is empty.
DescribedError(status, body) ==
    LET u == Unmarshal(body)
        message == IF u.message = "" /\ u.code = ""
                   THEN (IF body # "" THEN body ELSE StatusText(status))
                   ELSE u.message
    IN Layer("APIError", message, 0, status, u.code)

LastOutcome == outcomes[Len(outcomes)]

\* C11: the typed error produced for a 5xx response is built by the same rule as for
\* a 4xx response: code and message parsed from the body, else the raw body, else the
\* reason phrase of the status.
C11_ServerErrorRule ==
    (Done /\ Len(outcomes) = maxRetries /\ StatusIn(LastOutcome, 500, 599)
        /\ StatesAttemptCount(ret.err, maxRetries))
    => \E i \in 1..Len(ret.err) : ret.err[i] = DescribedError(LastOutcome.status, LastOutcome.body)

\* C12: for every 4xx response the returned typed error carries that response's
\* status code, takes code and message from the body by the rule above, and never has
\* both code and message empty.
C12_ClientErrorRule ==
    (Done /\ outcomes # <<>> /\ StatusIn(LastOutcome, 400, 499))
    => /\ ret.err = <<DescribedError(LastOutcome.status, LastOutcome.body)>>
       /\ ~(ret.err[1].code = "" /\ ret.err[1].text = "")

\* C13: every failure a transport operation returns, whether caused by a transport
\* error or by a 4xx/5xx status, is or wraps the typed API error.
C13_SameTypedError ==
    (Done /\ outcomes # <<>> /\ ret.err # NoError
        /\ (IsTransportError(LastOutcome) \/ StatusIn(LastOutcome, 400, 599)))
    => \E i \in 1..Len(ret.err) : ret.err[i].kind = "APIError"

-----------------------------------------------------------------------------
\* Client: properties of ListEntities and of the get-by-key functions

RECURSIVE Concat(_)
\* The items of all pages of a chain, in page order.
Concat(chain) == IF chain = <<>> THEN <<>> ELSE Head(chain).items \o Concat(Tail(chain))

NoFault == \A i \in 1..Len(lsent) : lsent[i].outcome # "fault"

\* C19: for a finite cursor chain and with no transport failure, ListEntities sends
\* exactly one GET per page, each carrying the next-cursor of the previous response,
\* stops after the first page whose next-cursor is empty or absent, and returns the
\* items of all pages in page order, none duplicated or missing.
C19_FollowsChain ==
    (lfn = "ListEntities" /\ lpc = "done" /\ NoFault)
    => /\ Len(lsent) = Len(lserver)
       /\ \A i \in 1..Len(lsent) :
            CursorParam(lsent[i].url) = (IF i = 1 THEN <<>> ELSE lserver[i - 1].next.value)
       /\ lret.ok /\ lret.items = Concat(lserver)

\* What the scan of a get-by-key function accepts in the listed items.
Matching ==
    CASE lfn = "GetFeatureFlag" -> FlagMatches(lserver, larg[1])
      [] lfn = "GetPolicy" -> PolicyMatches(lserver, larg[1])
      [] lfn = "GetUserRole" -> {i \in 1..Len(lserver) : lserver[i].UserID = larg[1] /\ lserver[i].Role = larg[2]}
      [] lfn = "GetAPIKey" -> APIKeyMatches(lserver, larg[1])

GetByKeyDone == lfn \in {"GetFeatureFlag", "GetPolicy", "GetUserRole", "GetAPIKey"} /\ lpc = "done" /\ NoFault

\* A returned item is a listed one the lookup accepts; a failed lookup returns none.
ReturnsMatchOrNothing ==
    IF Matching # {}
    THEN lret.ok /\ \E i \in Matching : lret.item = lserver[i]
    ELSE ~lret.ok /\ lret.item = NilItem

-----------------------------------------------------------------------------
\* Helpers: role changes, round trip of the member diff, license keys

\* The user ids whose role differs between the stored and the planned members.
RoleChanged(S, P) == {id \in IDs(S) \cap IDs(P) : RoleIn(S, id) # RoleIn(P, id)}

DiffDone ==
    /\ hfn = "computeMemberDiff" /\ hdone /\ ~IsUnknown(ha) /\ ~IsUnknown(hb)
    /\ UniqueIDs(MembersOf(ha)) /\ UniqueIDs(MembersOf(hb))

\* C21 as stated: a member whose role changes is both added with the new role and
\* removed.
C21_AsStated ==
    DiffDone
    => \A id \in RoleChanged(MembersOf(ha), MembersOf(hb)) :
         /\ [UserID |-> id, Role |-> RoleIn(MembersOf(hb), id)] \in Range(hres.add)
         /\ id \in Range(hres.remove)

\* C21: a member whose role changes between the stored and the planned set is added
\* with the new role, and is not removed.
C21_RoleChangeIsUpsert ==
    DiffDone
    => \A id \in RoleChanged(MembersOf(ha), MembersOf(hb)) :
         /\ [UserID |-> id, Role |-> RoleIn(MembersOf(hb), id)] \in Range(hres.add)
         /\ id \notin Range(hres.remove)

\* u1 goes from member to admin while u2 stays: one addition, no removal.
C21_Witness ==
    /\ DiffDone
    /\ RoleChanged(MembersOf(ha), MembersOf(hb)) = {"u1"}
    /\ IDs(MembersOf(ha)) = {"u1", "u2"} /\ IDs(MembersOf(hb)) = {"u1", "u2"}
    /\ Len(hres.add) = 1 /\ hres.add[1].UserID = "u1"
    /\ hres.remove = <<>>

LicensesDone == hfn = "licensesEquivalent" /\ hdone /\ Valid(ha) /\ Valid(hb)

LicsOf(text) == {lic(Decode(text)[i]) : i \in 1..Len(Decode(text))}

\* C22: whenever some license of one collection differs from every license of the
\* other in at least one field, licensesEquivalent returns false.
C22_FieldForField ==
    (LicensesDone /\ LicsOf(ha) # LicsOf(hb)) => hres = FALSE

-----------------------------------------------------------------------------
\* Transport: the waits between attempts

\* C23: the wait before attempt number i (i = 0, 1, 2) is exactly i x 500ms: none
\* before the first attempt, 500ms before the second, 1000ms before the third, and
\* none after the final failed attempt.
C23_BackoffSchedule ==
    /\ \A i \in 1..Len(waits) : waits[i] = i * 500
    /\ pc = "send" => Len(waits) = attempt /\ attempt \in {0, 1, 2}
    /\ Done => Len(waits) = (IF outcomes = <<>> THEN 0 ELSE Len(outcomes) - 1)

\* Three attempts failed: 500ms and 1000ms were waited, and nothing after the third.
C23_Witness ==
    /\ Done /\ Len(outcomes) = 3 /\ ret.err # NoError
    /\ waits = <<500, 1000>>

-----------------------------------------------------------------------------
\* Resources: what a Read removes, replaces and keeps

\* C24: a Read of an API key drops the key from the persisted state if and only if
\* the list it fetched holds the key with a non-empty revoked-at value; when the key
\* is not in the server's list the Read reports an error and leaves the persisted
\* state as it was.
C24_RemovedIffRevoked ==
    [][(rkind = "api_key" /\ rphase = "tracked" /\ rop' = "read" /\ rcalls' # <<>>)
        => /\ rphase' = "removed" <=> (rcalls'[1].ok /\ rserver.Exists /\ rserver.RevokedAt # "")
           /\ ~rserver.Exists => (rdiag' /\ rstate' = rstate /\ rphase' = rphase)]_vars

\* Somebody revoked the key behind the provider and the next Read dropped it.
C24_Witness ==
    /\ rkind = "api_key" /\ rop = "read" /\ rphase = "removed" /\ ~rdiag
    /\ rserver.Exists /\ rserver.RevokedAt # "" /\ rchanges > 0

-----------------------------------------------------------------------------
\* Helpers: applying the member diff

\* Applying the diff yields the plan, no id is both added and removed, and the diff
\* of a list with itself is empty.
RoundTrip ==
    /\ Applied(MembersOf(ha), hres) = RoleMap(MembersOf(hb))
    /\ \A i \in 1..Len(hres.add) : hres.add[i].UserID \notin Range(hres.remove)
    /\ ha = hb => hres = EmptyDiff

-----------------------------------------------------------------------------
\* Transport: how often the server carries out one operation's request

\* C26: one operation makes the server carry out its request at most once, also when
\* an attempt's response is lost or is a 5xx after the server has processed the
\* request: a Create sent through Post never creates a second resource.
C26_AtMostOnce ==
    Cardinality({i \in 1..Len(served) : served[i]}) <= 1

-----------------------------------------------------------------------------
\* Resources: collections after a Read, Team Create, user-role Delete

\* The sub-collections of a resource that the server returns as lists.
Collections(kind) ==
    CASE kind = "entity" -> {"relations", "links", "licenses"}
      [] kind = "team" -> {"members"}
      [] OTHER -> {}

\* The stored collection is not equivalent to the one the server returns.
Drifted(field) ==
    /\ ~IsNull(rstate[field])
    /\ ~EquivalentTexts(field, rstate[field].value, Fetched(field, rserver))

\* C27: after a successful Read of a team or an entity, a persisted members,
\* relations, links or licenses collection that differs from what the server
\* returned is replaced by the server's collection, an empty one included.
C27_ReplacedByServer ==
    [][(ReadStep /\ ~rdiag' /\ rphase' = "tracked")
        => \A field \in Collections(rkind) :
              Drifted(field) => rstate'[field] = StringValue(Fetched(field, rserver))]_vars

\* C28: whenever Team Create reports an error, no team created by that call is left
\* on the server without being recorded in the persisted state.
C28_NoOrphanTeam ==
    (rkind = "team" /\ rop = "create" /\ rdiag) => ~rserver.Exists

\* C29: the request a user-role Delete sends names, in its path or its body, both
\* the user and the role of the binding being deleted.
C29_RequestNamesUserAndRole ==
    \A i \in 1..Len(rcalls) :
        rcalls[i].fn = "RemoveUserRole" =>
            LET named == {rcalls[i].path[k] : k \in 1..Len(rcalls[i].path)}
                            \cup {rcalls[i].body[k] : k \in 1..Len(rcalls[i].body)}
            IN /\ rorig.user_id.value \in named
               /\ rorig.role.value \in named

\* C30: after a Team Create or Update that reported no error, whenever the members
\* the server returned are equivalent to the planned ones (the same user_id/role
\* pairs in any order), the persisted members text is the planned text.
C30_PlannedMembersKept ==
    (/\ rkind = "team" /\ rop \in {"create", "update"} /\ ~rdiag /\ rphase = "tracked"
     /\ rplan.members.is = "value"
     /\ membersEquivalent(rplan.members.value, MarshalMembers(rserver.Members)))
    => rstate.members = rplan.members

====
